---------------------------- MODULE Spec2Model ----------------------------
(***************************************************************************)
(* A model of the calendar time-arithmetic core of calendar_v2:            *)
(*   - the overlap layout engine   (src/app.py, calculate_overlap_columns) *)
(*   - the recurrence engine       (src/utils/recurring_events.py)         *)
(*   - the events table operations (src/database.py and                    *)
(*                                  src/utils/recurring_events.py)         *)
(* Each part has its own specification (Spec, SpecExpand, SpecDb) over the *)
(* one set of variables; the variables of the other parts stay idle.       *)
(***************************************************************************)
EXTENDS Integers, Sequences, FiniteSets, TLC

(***************************************************************************)
(* Bounds of the model.                                                    *)
(***************************************************************************)
\* Event times of the layout engine are 0..MaxTime (one rendering day).
MaxTime == 2
\* Longest list handed to calculate_overlap_columns.
MaxEvents == 3
\* The years the model's calendar goes on beyond the last date an expansion
\* that emits instances reaches; the calendar's last year stands for
\* datetime.MAXYEAR, where date arithmetic raises.
YearsBeyond == 1
\* Largest COUNT of the rules handed to expand_rrule.
MaxCount == 4
\* Largest max_instances handed to expand_rrule.
MaxInstances == 4

VARIABLES
  \* ---- overlap layout engine ----
  lpc,            \* "input": not yet called; "done": calculate_overlap_columns returned
  events,         \* the list handed to calculate_overlap_columns (latest call)
  sorted_events,  \* the list it returned: events in sorted order, annotated
  groups,         \* the groups it built (each a list of events, in placement order)
  first_events,   \* the list of the first call
  first_sorted,   \* what the first call returned
  \* ---- recurrence engine: one call of expand_rrule ----
  epc,                 \* "idle" | "call" | "loop" | "done" (returned) | "raised"
  start_datetime_str,  \* argument: <<Y, M, D, h, m, s>> for 'Y-M-D h:m:s'
  end_datetime_str,    \* argument
  rrule_str,           \* argument: the ';'-separated segments of the rule
  max_instances,       \* argument
  parsed,              \* locals of lines 34-48: [freq, interval, count, until_dt,
                       \*   byday, bymonthday]
  current_dt,          \* local of the while loop
  instance_count,      \* local of the while loop
  instances,           \* local: the list returned
  \* ---- the events table and the calls that change it ----
  recurrence_columns,  \* whether the events table has the columns
                       \*   recurrence_id, rrule and original_start
  events_table,        \* the rows of the events table, in rowid order
  lastrowid,           \* the largest id the table has handed out (AUTOINCREMENT)
  uuid_count,          \* how many uuid4() values were generated
  last_call,           \* the latest call: [op, args, raised, value]; args are
                       \*   kept for create_recurring_event only
  \* ---- build_rrule_string ----
  bpc,                 \* "idle" | "call" | "done"
  build_args,          \* [freq, interval, count, until, byday, bymonthday]; an
                       \*   optional argument is <<>> for None and <<v>> for v
  rrule_built,         \* the string returned, as its ';'-separated segments
  \* ---- generate_ics, and parse_ics_file on what it returned ----
  xpc,                 \* "idle" | "call" | "generated" | "parsed"
  ics_events,          \* argument events: the list of event dictionaries
  start_date,          \* argument: <<>> for None, <<Y, M, D>> for 'Y-M-D'
  end_date,            \* argument, likewise
  ics_text,            \* the ICS text returned: its VEVENT blocks in order
  cal,                 \* the calendar parse_ics_file decoded from its file
  upload,              \* the request of import_ics: <<>> for none, else
                       \*   <<[present, filename, valid, cal, tag, user]>>
  events_back          \* what parse_ics_file returned for ics_text

layoutVars == <<lpc, events, sorted_events, groups, first_events, first_sorted>>

expandVars == <<epc, start_datetime_str, end_datetime_str, rrule_str,
                max_instances, parsed, current_dt, instance_count, instances>>

dbVars == <<recurrence_columns, events_table, lastrowid, uuid_count, last_call>>

buildVars == <<bpc, build_args, rrule_built>>

exportVars ==
  <<xpc, ics_events, start_date, end_date, ics_text, cal, upload, events_back>>

codecVars == <<buildVars, exportVars>>

vars == <<layoutVars, expandVars, dbVars, codecVars>>

(***************************************************************************)
(* OVERLAP LAYOUT ENGINE  (src/app.py)                                     *)
(*                                                                         *)
(* An event is [id, start, end].  start and end stand for the strings      *)
(* 'YYYY-MM-DD HH:MM:SS'; the strings are zero padded, so their            *)
(* lexicographic order (the sort key) and the order of the parsed          *)
(* datetimes (events_overlap, the column test) are the same order, the     *)
(* order of the integers here.  id is the identity of the dict object.     *)
(***************************************************************************)
Times == 0..MaxTime

\* A mutant of events_overlap: the intervals are taken to be closed.
EventsOverlapClosed(event1, event2) ==
  event1.start <= event2.end /\ event2.start <= event1.end

\* events_overlap(event1, event2): start1 < end2 and start2 < end1
events_overlap(event1, event2) ==
  event1.start < event2.end /\ event2.start < event1.end

RECURSIVE InsertByStart(_, _)
\* Insert e into the sorted list s behind every element whose key is <= e's
\* key (Python's sort is stable).
InsertByStart(e, s) ==
  IF s = <<>> THEN <<e>>
  ELSE IF Head(s).start <= e.start
       THEN <<Head(s)>> \o InsertByStart(e, Tail(s))
       ELSE <<e>> \o s

\* A mutant of SortByStart: the list is not sorted at all.
SortByStartMissing(s) == s

RECURSIVE SortByStart(_)
\* sorted(events, key=lambda e: e['start_datetime'])  /  group.sort(key=...)
SortByStart(s) ==
  IF s = <<>> THEN <<>>
  ELSE InsertByStart(s[Len(s)], SortByStart(SubSeq(s, 1, Len(s) - 1)))

\* A mutant of OverlappingGroups: only the event a group took in last is
\* compared.
OverlappingGroupsNewest(gs, event) ==
  {i \in 1..Len(gs) : events_overlap(event, gs[i][1])}

\* overlapping_groups: the indices of the groups holding an event that
\* overlaps `event`.
OverlappingGroups(gs, event) ==
  {i \in 1..Len(gs) : \E k \in 1..Len(gs[i]) : events_overlap(event, gs[i][k])}

RECURSIVE PopMerged(_, _, _)
\* for i in sorted(overlapping_groups, reverse=True):
\*     merged_group.extend(groups.pop(i))
\* returns <<merged_group, groups>> after the pops.
PopMerged(merged, gs, idx) ==
  IF idx = {} THEN <<merged, gs>>
  ELSE LET i == CHOOSE x \in idx : \A y \in idx : y <= x
       IN PopMerged(merged \o gs[i],
                    SubSeq(gs, 1, i - 1) \o SubSeq(gs, i + 1, Len(gs)),
                    idx \ {i})

\* One turn of the grouping loop (lines 83-98).
GroupStep(gs, event) ==
  LET idx == OverlappingGroups(gs, event)
  IN IF idx = {} THEN Append(gs, <<event>>)
     ELSE LET pm == PopMerged(<<event>>, gs, idx)
          IN Append(pm[2], pm[1])

RECURSIVE FindGroups(_, _)
\* The grouping loop over sorted_events (lines 82-98).
FindGroups(gs, evs) ==
  IF evs = <<>> THEN gs
  ELSE FindGroups(GroupStep(gs, Head(evs)), Tail(evs))

\* A mutant of ColumnIsFree: compares the occupant's start, not its end.
ColumnIsFreeByStart(column, start) ==
  \A k \in 1..Len(column) : ~(column[k].start > start)

\* A mutant of ColumnIsFree: an occupant ending exactly at start blocks too.
ColumnIsFreeStrict(column, start) ==
  \A k \in 1..Len(column) : ~(column[k].end >= start)

\* is_free for a column that exists (lines 114-120): no occupant ends after start.
ColumnIsFree(column, start) ==
  \A k \in 1..Len(column) : ~(column[k].end > start)

\* The column the while loop of lines 111-130 stops at: the first free
\* one, Len(columns) + 1 (a new column) when none is free.  Columns are
\* numbered from 1 here and from 0 in overlap_column.
FirstFreeColumn(columns, start) ==
  IF \E c \in 1..Len(columns) : ColumnIsFree(columns[c], start)
  THEN CHOOSE c \in 1..Len(columns) :
         /\ ColumnIsFree(columns[c], start)
         /\ \A d \in 1..(c - 1) : ~ColumnIsFree(columns[d], start)
  ELSE Len(columns) + 1

\* Lines 122-129: put the event into column c, opening it when it is new.
PlaceInColumn(columns, c, event) ==
  IF c > Len(columns) THEN Append(columns, <<event>>)
  ELSE [columns EXCEPT ![c] = Append(@, event)]

RECURSIVE PlaceAll(_, _, _)
\* The placement loop of one group (lines 106-130) over its sorted events:
\* returns <<columns, ann>>, ann the overlap_column and the overlap_total
\* written at placement time (lines 127-128) for every event id placed.
PlaceAll(columns, ann, evs) ==
  IF evs = <<>> THEN <<columns, ann>>
  ELSE LET e == Head(evs)
           c == FirstFreeColumn(columns, e.start)
           placed == PlaceInColumn(columns, c, e)
       IN PlaceAll(placed,
                   ann @@ (e.id :> [overlap_column |-> c - 1,
                                    overlap_total  |-> Len(placed)]),
                   Tail(evs))

\* A mutant of AssignColumns: lines 132-135 are missing, every event keeps
\* the overlap_total written when it was placed.
AssignColumnsNoFinalTotal(group) ==
  PlaceAll(<<>>, <<>>, SortByStart(group))[2]

\* Lines 101-135 for one group: the annotation [overlap_column, overlap_total]
\* of each of its events, by id; lines 132-135 overwrite every overlap_total
\* with the final number of columns.
AssignColumns(group) ==
  LET placed == PlaceAll(<<>>, <<>>, SortByStart(group))
      total_cols == Len(placed[1])
  IN [i \in DOMAIN placed[2] |->
        [overlap_column |-> placed[2][i].overlap_column,
         overlap_total  |-> total_cols]]

RECURSIVE AnnotateGroups(_)
\* The annotations of all groups, by event id.
AnnotateGroups(gs) ==
  IF gs = <<>> THEN <<>>
  ELSE AssignColumns(Head(gs)) @@ AnnotateGroups(Tail(gs))

\* calculate_overlap_columns(events): <<the returned list, the groups>>.
\* `if not events: return events` is the case of the empty list.
calculate_overlap_columns(evs) ==
  IF evs = <<>> THEN <<evs, <<>>>>
  ELSE LET se  == SortByStart(evs)
           gs  == FindGroups(<<>>, se)
           ann == AnnotateGroups(gs)
       IN << [k \in 1..Len(se) |->
                [id |-> se[k].id, start |-> se[k].start, end |-> se[k].end,
                 overlap_column |-> ann[se[k].id].overlap_column,
                 overlap_total  |-> ann[se[k].id].overlap_total]],
             [g \in 1..Len(gs) |-> SortByStart(gs[g])] >>

\* The lists a view hands over first: at most MaxEvents events with times in
\* Times, in the order of get_events_by_date (ORDER BY start_datetime, events
\* with one start in any order); the id of an event is its place in that list.
EventLists ==
  UNION { { [k \in 1..n |-> [id |-> k, start |-> st[k], end |-> en[k]]]
              : st \in {f \in [1..n -> Times] :
                          \A k \in 1..(n - 1) : f[k] <= f[k + 1]},
                en \in [1..n -> Times] }
          : n \in 0..MaxEvents }

\* The list s with its elements at places i and i + 1 exchanged.
SwapAdjacent(s, i) ==
  [k \in 1..Len(s) |-> IF k = i THEN s[i + 1] ELSE IF k = i + 1 THEN s[i] ELSE s[k]]

\* No call of expand_rrule is under way.
ExpandIdle ==
  /\ epc = "idle"
  /\ start_datetime_str = <<>>
  /\ end_datetime_str = <<>>
  /\ rrule_str = <<>>
  /\ max_instances = 0
  /\ parsed = <<>>
  /\ current_dt = <<>>
  /\ instance_count = 0
  /\ instances = <<>>

\* No database is attached.
DbIdle ==
  /\ recurrence_columns = FALSE
  /\ events_table = <<>>
  /\ lastrowid = 0
  /\ uuid_count = 0
  /\ last_call = <<>>

\* build_rrule_string is not called.
BuildIdle ==
  /\ bpc = "idle"
  /\ build_args = <<>>
  /\ rrule_built = <<>>

\* generate_ics is not called.
ExportIdle ==
  /\ xpc = "idle"
  /\ ics_events = <<>>
  /\ start_date = <<>>
  /\ end_date = <<>>
  /\ ics_text = <<>>
  /\ cal = <<>>
  /\ upload = <<>>
  /\ events_back = <<>>

CodecIdle == BuildIdle /\ ExportIdle

LayoutInit ==
  /\ ExpandIdle
  /\ DbIdle
  /\ CodecIdle
  /\ lpc = "input"
  /\ events \in EventLists
  /\ sorted_events = <<>>
  /\ groups = <<>>
  /\ first_events = <<>>
  /\ first_sorted = <<>>

\* A view calls calculate_overlap_columns on the day's events.
Layout ==
  /\ lpc = "input"
  /\ \E r \in {calculate_overlap_columns(events)} :
       /\ sorted_events' = r[1]
       /\ groups' = r[2]
       /\ first_sorted' = r[1]
  /\ first_events' = events
  /\ lpc' = "done"
  /\ UNCHANGED events
  /\ UNCHANGED <<expandVars, dbVars, codecVars>>

\* The same events are laid out again in another order (one exchange of
\* neighbours at a time reaches every permutation of the list).
LayoutAgain ==
  /\ lpc = "done"
  /\ \E i \in 1..(Len(events) - 1) :
       \E r \in {calculate_overlap_columns(SwapAdjacent(events, i))} :
         /\ events' = SwapAdjacent(events, i)
         /\ sorted_events' = r[1]
         /\ groups' = r[2]
  /\ UNCHANGED <<lpc, first_events, first_sorted>>
  /\ UNCHANGED <<expandVars, dbVars, codecVars>>

(***************************************************************************)
(* CLAIMS ABOUT THE OVERLAP LAYOUT ENGINE (checked under Spec).            *)
(***************************************************************************)
\* The places of the returned list.
Laid == 1..Len(sorted_events)

\* The overlap rule as the specification words it, on two returned events.
Intersect(a, b) == a.start < b.end /\ b.start < a.end

RECURSIVE LinkedWithin(_, _)
\* The places linked to a place of S by a chain of pairwise-overlapping events.
LinkedWithin(S, n) ==
  IF n = 0 THEN S
  ELSE LinkedWithin(S \cup {j \in Laid : \E i \in S :
                       Intersect(sorted_events[i], sorted_events[j])}, n - 1)

\* The connected overlap group of the event at place i.
Component(i) == LinkedWithin({i}, Len(sorted_events))

\* Whether the events at the places S can share k columns with no two
\* overlapping events in one column.
Colourable(S, k) ==
  \E f \in [S -> 0..(k - 1)] :
    \A i, j \in S :
      (i # j /\ Intersect(sorted_events[i], sorted_events[j])) => f[i] # f[j]

\* The smallest such k.
MinColumns(S) ==
  CHOOSE k \in 1..Cardinality(S) :
    Colourable(S, k) /\ \A m \in 1..(k - 1) : ~Colourable(S, m)

\* Every event of the list is a proper interval: it ends after it starts.
AllProper == \A i \in 1..Len(events) : events[i].start < events[i].end

\* The annotation the first call / the latest call gave the event with an id.
FirstOf(id) == CHOOSE e \in {first_sorted[k] : k \in 1..Len(first_sorted)} : e.id = id
LatestOf(id) == CHOOSE e \in {sorted_events[k] : k \in Laid} : e.id = id
Ids == {events[k].id : k \in 1..Len(events)}
PlaceIn(list, id) == CHOOSE k \in 1..Len(list) : list[k].id = id

\* The latest list keeps events with equal start times in the relative order
\* they have in the first list.
KeepsTieOrder ==
  \A a, b \in Ids :
    (FirstOf(a).start = FirstOf(b).start
       /\ PlaceIn(first_events, a) < PlaceIn(first_events, b))
    => PlaceIn(events, a) < PlaceIn(events, b)

\* C1: after calculate_overlap_columns, no two distinct events that overlap
\* under the strict half-open rule carry the same overlap_column, zero-length
\* and inverted intervals included.
C1_NoSharedColumn ==
  lpc = "done" =>
    \A i, j \in Laid :
      (i # j /\ Intersect(sorted_events[i], sorted_events[j]))
      => sorted_events[i].overlap_column # sorted_events[j].overlap_column

\* C1 witness: a laid-out list in which a zero-length or inverted event
\* overlaps another event (and so sits in another column).
C1_Witness ==
  /\ lpc = "done"
  /\ \E i, j \in Laid :
       /\ i # j
       /\ sorted_events[i].end <= sorted_events[i].start
       /\ Intersect(sorted_events[i], sorted_events[j])
       /\ sorted_events[i].overlap_column # sorted_events[j].overlap_column

\* C2 as claimed: for every input list, degenerate intervals included, every
\* connected overlap group gets the minimum possible number of columns.
C2_MinimalAlways ==
  lpc = "done" =>
    \A i \in Laid : sorted_events[i].overlap_total = MinColumns(Component(i))

\* C2 amended: when every event of the list ends after it starts, every
\* connected overlap group gets the minimum possible number of columns.
C2_MinimalProper ==
  (lpc = "done" /\ AllProper) =>
    \A i \in Laid : sorted_events[i].overlap_total = MinColumns(Component(i))

\* C2 witness: proper intervals, a group of three events that needs and gets
\* exactly two columns.
C2_Witness ==
  /\ lpc = "done"
  /\ AllProper
  /\ \E i \in Laid :
       /\ Cardinality(Component(i)) = 3
       /\ sorted_events[i].overlap_total = 2
       /\ MinColumns(Component(i)) = 2

\* C3: every event of a connected overlap group carries the same
\* overlap_total, the columns the group uses are exactly 0..overlap_total-1
\* (so the total is the number of columns opened), and
\* 0 <= overlap_column < overlap_total.
C3_TotalIsColumnCount ==
  lpc = "done" =>
    \A i \in Laid :
      LET total == sorted_events[i].overlap_total
          used  == {sorted_events[j].overlap_column : j \in Component(i)}
      IN /\ \A j \in Component(i) : sorted_events[j].overlap_total = total
         /\ used = 0..(total - 1)
         /\ Cardinality(used) = total
         /\ 0 <= sorted_events[i].overlap_column
         /\ sorted_events[i].overlap_column < total

\* C3 witness: a group of three events over two columns, the event in
\* column 0 placed when one column was open.
C3_Witness ==
  /\ lpc = "done"
  /\ \E i \in Laid :
       /\ Cardinality(Component(i)) = 3
       /\ sorted_events[i].overlap_column = 0
       /\ sorted_events[i].overlap_total = 2

\* C4 as claimed: for every permutation of the list every event receives the
\* same overlap_total, and the same overlap_column whenever the permutation
\* keeps events with equal start times in their original relative order.
C4_OrderIndependent ==
  (lpc = "done") =>
    /\ \A id \in Ids : LatestOf(id).overlap_total = FirstOf(id).overlap_total
    /\ KeepsTieOrder =>
         \A id \in Ids : LatestOf(id).overlap_column = FirstOf(id).overlap_column

\* C4 amended: for every permutation of a list whose events all end after
\* they start every event receives the same overlap_total; and for every
\* list the returned list is the same whenever the permutation keeps events
\* with equal start times in their original relative order.
C4_OrderIndependentProper ==
  (lpc = "done") =>
    /\ AllProper =>
         \A id \in Ids : LatestOf(id).overlap_total = FirstOf(id).overlap_total
    /\ KeepsTieOrder => sorted_events = first_sorted

\* C4 witness: a list of proper intervals laid out again in another order
\* that keeps the order of the equal starts, with events side by side.
C4_Witness ==
  /\ lpc = "done"
  /\ events # first_events
  /\ AllProper
  /\ KeepsTieOrder
  /\ \E a, b \in Ids : a # b /\ FirstOf(a).start = FirstOf(b).start
  /\ \E id \in Ids : LatestOf(id).overlap_column = 1


(***************************************************************************)
(* RECURRENCE ENGINE  (src/utils/recurring_events.py)                      *)
(*                                                                         *)
(* A datetime is [year, month, day, hour, minute, second]; the string      *)
(* 'YYYY-MM-DD HH:MM:SS' is the tuple <<Y, M, D, h, m, s>> of its fields.  *)
(* Arithmetic goes through the count of seconds since the calendar's first *)
(* day, as datetime + timedelta does.                                      *)
(***************************************************************************)
\* The first year of the model's calendar; 2024-01-01 is a Monday.
FirstYear == 2024
\* The last year of the calendar, standing for datetime.MAXYEAR (9999): far
\* enough for MaxInstances instances of a YEARLY rule with INTERVAL=2.
MAXYEAR == FirstYear + 2 * MaxInstances + YearsBeyond
SecondsPerDay == 86400

IsLeap(y) == (y % 4 = 0 /\ y % 100 # 0) \/ y % 400 = 0

\* calendar.monthrange(year, month)[1]
DaysInMonth(y, m) ==
  IF m = 2 THEN (IF IsLeap(y) THEN 29 ELSE 28)
  ELSE IF m \in {4, 6, 9, 11} THEN 30 ELSE 31

DaysInYear(y) == IF IsLeap(y) THEN 366 ELSE 365

RECURSIVE SumDaysInYears(_)
SumDaysInYears(y) ==
  IF y <= FirstYear THEN 0 ELSE SumDaysInYears(y - 1) + DaysInYear(y - 1)

RECURSIVE SumDaysInMonths(_, _)
SumDaysInMonths(y, m) ==
  IF m <= 1 THEN 0 ELSE SumDaysInMonths(y, m - 1) + DaysInMonth(y, m - 1)

\* The sums above, tabulated once for the calendar's years.
YearStartTable == [y \in FirstYear..(MAXYEAR + 1) |-> SumDaysInYears(y)]
MonthStartTable ==
  [leap \in BOOLEAN |->
     [m \in 1..13 |-> SumDaysInMonths(IF leap THEN FirstYear ELSE FirstYear + 1, m)]]

\* Days from FirstYear-01-01 to y-01-01.
DaysBeforeYear(y) == YearStartTable[y]

\* Days from y-01-01 to y-m-01.
DaysBeforeMonth(y, m) == MonthStartTable[IsLeap(y)][m]

\* The day number of a date, FirstYear-01-01 being day 0.
DayNumber(y, m, d) == DaysBeforeYear(y) + DaysBeforeMonth(y, m) + (d - 1)

\* The seconds from FirstYear-01-01 00:00:00 to dt.
ToSeconds(dt) ==
  DayNumber(dt.year, dt.month, dt.day) * SecondsPerDay
    + dt.hour * 3600 + dt.minute * 60 + dt.second

RECURSIVE YearOfDay(_, _)
\* The year day number n falls in, searching from year y on.
YearOfDay(n, y) ==
  IF n < DaysBeforeYear(y + 1) THEN y ELSE YearOfDay(n, y + 1)

RECURSIVE MonthOfDay(_, _, _)
\* The month the n-th day (from 0) of year y falls in, searching from m on.
MonthOfDay(n, y, m) ==
  IF n < DaysBeforeMonth(y, m + 1) THEN m ELSE MonthOfDay(n, y, m + 1)

\* The datetime t seconds after FirstYear-01-01 00:00:00.
FromSeconds(t) ==
  LET n   == t \div SecondsPerDay
      sec == t % SecondsPerDay
      y   == YearOfDay(n, FirstYear)
      m   == MonthOfDay(n - DaysBeforeYear(y), y, 1)
  IN [year |-> y, month |-> m,
      day |-> n - DaysBeforeYear(y) - DaysBeforeMonth(y, m) + 1,
      hour |-> sec \div 3600, minute |-> (sec % 3600) \div 60,
      second |-> sec % 60]

\* No datetime: None, and what a datetime operation that raised yields
\* (OverflowError of datetime + timedelta, ValueError of datetime.replace).
NoDt ==
  [year |-> 0, month |-> 0, day |-> 0, hour |-> 0, minute |-> 0, second |-> 0]

Raised(dt) == dt.year = 0

\* dt + timedelta(seconds=n): OverflowError outside the calendar.
AddSeconds(dt, n) ==
  LET t == ToSeconds(dt) + n
  IN IF t >= 0 /\ t < DaysBeforeYear(MAXYEAR + 1) * SecondsPerDay
     THEN FromSeconds(t) ELSE NoDt

\* dt + timedelta(days=n)
AddDays(dt, n) == AddSeconds(dt, n * SecondsPerDay)

\* dt.replace(year=y, month=m, day=d): ValueError when the date does not exist.
Replace(dt, y, m, d) ==
  IF y > MAXYEAR \/ y < FirstYear \/ m < 1 \/ m > 12 \/ d > DaysInMonth(y, m)
  THEN NoDt
  ELSE [dt EXCEPT !.year = y, !.month = m, !.day = d]

\* dt.weekday(): 0 = Monday .. 6 = Sunday.
Weekday(dt) == DayNumber(dt.year, dt.month, dt.day) % 7

\* datetime.strptime(s, '%Y-%m-%d %H:%M:%S')
Strptime(s) ==
  [year |-> s[1], month |-> s[2], day |-> s[3],
   hour |-> s[4], minute |-> s[5], second |-> s[6]]

\* dt.strftime('%Y-%m-%d %H:%M:%S')
Strftime(dt) == <<dt.year, dt.month, dt.day, dt.hour, dt.minute, dt.second>>

(***************************************************************************)
(* The rule string.  rrule_str.split(';') is a sequence of segments; a     *)
(* segment is [eq, key, value]: eq says whether it holds an '=', key is    *)
(* the text before the first '=', value the text behind it, kept as the    *)
(* list of its ','-separated pieces (each a string).                       *)
(***************************************************************************)
RECURSIVE ParseParts(_, _)
\* Lines 28-32: rrule_parts, later segments overriding earlier ones.
\* An absent key maps to no value: the function's domain holds the keys.
ParseParts(segs, parts) ==
  IF segs = <<>> THEN parts
  ELSE LET seg == Head(segs)
       IN ParseParts(Tail(segs),
                     IF seg.eq THEN (seg.key :> seg.value) @@ parts ELSE parts)

rrule_parts(rule) == ParseParts(rule, <<>>)

Has(rule, key) == key \in DOMAIN rrule_parts(rule)

\* The text of a value that holds no ',': its only piece.  A value with
\* several pieces is a text no keyword, number or date equals.
Scalar(value) == IF Len(value) = 1 THEN value[1] ELSE "?"

\* str.upper() on the words the rules use.
UpperText ==
  [w \in {"daily", "weekly", "monthly", "yearly", "mo", "we"} |->
     CASE w = "daily" -> "DAILY" [] w = "weekly" -> "WEEKLY"
       [] w = "monthly" -> "MONTHLY" [] w = "yearly" -> "YEARLY"
       [] w = "mo" -> "MO" [] w = "we" -> "WE"]
Upper(w) == IF w \in DOMAIN UpperText THEN UpperText[w] ELSE w

\* int(text): the texts that are numerals, and their values.
IntText ==
  [t \in {"0", "1", "2", "3", "4", "5", "6", "15", "28", "29", "30", "31"} |->
     CASE t = "0" -> 0 [] t = "1" -> 1 [] t = "2" -> 2 [] t = "3" -> 3
       [] t = "4" -> 4 [] t = "5" -> 5 [] t = "6" -> 6 [] t = "15" -> 15
       [] t = "28" -> 28 [] t = "29" -> 29 [] t = "30" -> 30 [] t = "31" -> 31]
IsNumeral(t) == t \in DOMAIN IntText

\* datetime.strptime(until_str, '%Y%m%d') and
\* datetime.strptime(until_str.replace('Z', ''), '%Y%m%dT%H%M%S') on the
\* UNTIL texts the rules use.
UntilText ==
  [t \in {"20240110", "20240110T100000Z", "20240301", "20240103T100000Z"} |->
     CASE t = "20240110" -> Strptime(<<2024, 1, 10, 0, 0, 0>>)
       [] t = "20240103T100000Z" -> Strptime(<<2024, 1, 3, 10, 0, 0>>)
       [] t = "20240110T100000Z" -> Strptime(<<2024, 1, 10, 10, 0, 0>>)
       [] t = "20240301" -> Strptime(<<2024, 3, 1, 0, 0, 0>>)]

\* Line 37: until_str; None and '' are "".
UntilStr(rule) ==
  IF Has(rule, "UNTIL") THEN Scalar(rrule_parts(rule)["UNTIL"]) ELSE ""

\* Lines 34-48, when they do not raise: the locals read from the rule.
\* count is 0 for None (line 60 treats None and 0 alike) and until_dt is
\* NoDt for None.
ParseRule(rule) ==
  LET parts == rrule_parts(rule)
  IN [freq |-> IF "FREQ" \in DOMAIN parts
               THEN Upper(Scalar(parts["FREQ"])) ELSE "DAILY",
      interval |-> IF "INTERVAL" \in DOMAIN parts
                   THEN IntText[Scalar(parts["INTERVAL"])] ELSE 1,
      count |-> IF "COUNT" \in DOMAIN parts
                THEN IntText[Scalar(parts["COUNT"])] ELSE 0,
      until_dt |-> IF UntilStr(rule) # "" THEN UntilText[UntilStr(rule)] ELSE NoDt,
      byday |-> IF "BYDAY" \in DOMAIN parts THEN parts["BYDAY"] ELSE <<>>,
      bymonthday |-> IF "BYMONTHDAY" \in DOMAIN parts
                     THEN LET v == parts["BYMONTHDAY"]
                          IN {IntText[v[k]] : k \in {j \in 1..Len(v) : v[j] # ""}}
                     ELSE {}]

\* Whether lines 34-48 raise ValueError: int() of a text that is no numeral,
\* strptime() of a text that is no date.
ParseRaises(rule) ==
  \/ Has(rule, "INTERVAL") /\ ~IsNumeral(Scalar(rrule_parts(rule)["INTERVAL"]))
  \/ Has(rule, "COUNT") /\ ~IsNumeral(Scalar(rrule_parts(rule)["COUNT"]))
  \/ Has(rule, "BYMONTHDAY") /\
       \E k \in 1..Len(rrule_parts(rule)["BYMONTHDAY"]) :
         LET d == rrule_parts(rule)["BYMONTHDAY"][k]
         IN d # "" /\ ~IsNumeral(d)
  \/ UntilStr(rule) # "" /\ UntilStr(rule) \notin DOMAIN UntilText

\* Line 56: day_map
day_map ==
  [d \in {"MO", "TU", "WE", "TH", "FR", "SA", "SU"} |->
     CASE d = "MO" -> 0 [] d = "TU" -> 1 [] d = "WE" -> 2 [] d = "TH" -> 3
       [] d = "FR" -> 4 [] d = "SA" -> 5 [] d = "SU" -> 6]

\* Lines 75-79 and 111-116: whether dt's weekday is one of the BYDAY list.
WeekdayListed(byday, dt) ==
  \E k \in 1..Len(byday) :
    /\ Upper(byday[k]) \in DOMAIN day_map
    /\ day_map[Upper(byday[k])] = Weekday(dt)

\* A mutant of LimitReached: a date at UNTIL itself ends the loop.
LimitReachedAtUntil(r, max, cur, n) ==
  \/ r.count # 0 /\ n >= r.count
  \/ r.until_dt # NoDt /\ ToSeconds(cur) >= ToSeconds(r.until_dt)
  \/ n >= max

\* A mutant of LimitReached: the COUNT test is off by one.
LimitReachedLate(r, max, cur, n) ==
  \/ r.count # 0 /\ n > r.count
  \/ r.until_dt # NoDt /\ ToSeconds(cur) > ToSeconds(r.until_dt)
  \/ n >= max

\* Lines 60-65: the three breaks.  `if count and ...` skips None and 0.
LimitReached(r, max, cur, n) ==
  \/ r.count # 0 /\ n >= r.count
  \/ r.until_dt # NoDt /\ ToSeconds(cur) > ToSeconds(r.until_dt)
  \/ n >= max

\* Lines 68-92: include_instance
IncludeInstance(r, start, cur) ==
  CASE r.freq = "DAILY" -> TRUE
    [] r.freq = "WEEKLY" ->
         IF r.byday # <<>> THEN WeekdayListed(r.byday, cur) ELSE TRUE
    [] r.freq = "MONTHLY" ->
         IF r.bymonthday # {} THEN cur.day \in r.bymonthday
         ELSE cur.day = start.day
    [] r.freq = "YEARLY" -> cur.month = start.month /\ cur.day = start.day
    [] OTHER -> FALSE

RECURSIVE ScanByDay(_, _, _, _)
\* Lines 110-120: the scan for the next listed weekday, days_checked days
\* after the instance, at most 7 * interval - 1 further days.
ScanByDay(byday, interval, cur, days_checked) ==
  IF Raised(cur) \/ ~(days_checked < 7 * interval) \/ WeekdayListed(byday, cur)
  THEN cur
  ELSE ScanByDay(byday, interval, AddDays(cur, 1), days_checked + 1)

\* A mutant of NextByDay: the BYDAY branch is missing, the step is a week.
NextByDayWeekJump(byday, interval, cur) == AddDays(cur, 7 * interval)

\* Lines 108-120: the step behind an instance of a WEEKLY rule with BYDAY.
NextByDay(byday, interval, cur) ==
  ScanByDay(byday, interval, AddDays(cur, 1), 1)

\* Lines 125-136: the step of a MONTHLY rule.
NextMonth(interval, cur) ==
  LET total == cur.month + interval
      over  == IF total > 12 THEN (total - 1) \div 12 ELSE 0
      month == total - 12 * over
      year  == cur.year + over
  IN IF ~Raised(Replace(cur, year, month, cur.day))
     THEN Replace(cur, year, month, cur.day)
     ELSE IF year > MAXYEAR \/ year < FirstYear \/ month < 1 THEN NoDt
          ELSE Replace(cur, year, month, DaysInMonth(year, month))

\* Lines 103-138: the next candidate date.
NextCandidate(r, cur, include_instance) ==
  CASE r.freq = "DAILY" -> AddDays(cur, r.interval)
    [] r.freq = "WEEKLY" ->
         IF r.byday # <<>> /\ include_instance
         THEN NextByDay(r.byday, r.interval, cur)
         ELSE AddDays(cur, 7 * r.interval)
    [] r.freq = "MONTHLY" -> NextMonth(r.interval, cur)
    [] r.freq = "YEARLY" -> Replace(cur, cur.year + r.interval, cur.month, cur.day)
    [] OTHER -> cur

\* The locals of lines 23-25.
start_dt == Strptime(start_datetime_str)
end_dt == Strptime(end_datetime_str)
duration == ToSeconds(end_dt) - ToSeconds(start_dt)

\* The rule string with the given parts, absent ones ("" or <<>>) left out.
MkRule(freq, interval, count, until, byday, bymonthday) ==
  (IF freq = "" THEN <<>> ELSE <<[eq |-> TRUE, key |-> "FREQ", value |-> <<freq>>]>>)
  \o (IF interval = "" THEN <<>>
      ELSE <<[eq |-> TRUE, key |-> "INTERVAL", value |-> <<interval>>]>>)
  \o (IF count = "" THEN <<>>
      ELSE <<[eq |-> TRUE, key |-> "COUNT", value |-> <<count>>]>>)
  \o (IF until = "" THEN <<>>
      ELSE <<[eq |-> TRUE, key |-> "UNTIL", value |-> <<until>>]>>)
  \o (IF byday = <<>> THEN <<>>
      ELSE <<[eq |-> TRUE, key |-> "BYDAY", value |-> byday]>>)
  \o (IF bymonthday = <<>> THEN <<>>
      ELSE <<[eq |-> TRUE, key |-> "BYMONTHDAY", value |-> bymonthday]>>)

\* The numeral of a number.
Numeral(n) == CHOOSE t \in DOMAIN IntText : IntText[t] = n

\* The arguments the model hands to expand_rrule.
StartChoices ==
  { <<2024, 1, 1, 10, 0, 0>>,     \* a Monday
    <<2024, 1, 31, 10, 0, 0>>,    \* a Wednesday, the 31st
    <<2024, 2, 29, 23, 30, 0>> }  \* a Thursday, the leap day
DurationChoices == {3600, -1800}
FreqChoices == {"", "DAILY", "WEEKLY", "MONTHLY", "YEARLY", "HOURLY"}
IntervalChoices == {"", "1", "2"}
CountChoices == {""} \cup {Numeral(n) : n \in 1..MaxCount}
UntilChoices == {"", "20240110"}
\* <<BYDAY, BYMONTHDAY>>: BYDAY is read for WEEKLY and BYMONTHDAY for MONTHLY
\* only, so the other frequencies get one rule with each.
ByChoices(f) ==
  CASE f = "WEEKLY" ->
         { <<<<>>, <<>>>>, <<<<"MO", "WE">>, <<>>>>, <<<<"TU">>, <<>>>>,
           <<<<>>, <<"15">>>> }
    [] f = "MONTHLY" ->
         { <<<<>>, <<>>>>, <<<<>>, <<"15">>>>, <<<<>>, <<"1", "31">>>>,
           <<<<"MO", "WE">>, <<>>>> }
    [] OTHER ->
         { <<<<>>, <<>>>>, <<<<"MO", "WE">>, <<>>>>, <<<<>>, <<"15">>>> }
\* Rules with a value int() or strptime() rejects, and one whose only
\* segment holds no '='.
MalformedRules ==
  { MkRule("DAILY", "x", "", "", <<>>, <<>>),
    MkRule("DAILY", "", "x", "", <<>>, <<>>),
    MkRule("DAILY", "", "", "tomorrow", <<>>, <<>>),
    MkRule("MONTHLY", "", "", "", <<>>, <<"x">>),
    <<[eq |-> TRUE, key |-> "INTERVAL", value |-> <<"">>]>>,
    <<[eq |-> FALSE, key |-> "DAILY", value |-> <<>>]>> }
\* Rules at the edges of the limits: an UNTIL that an occurrence of the
\* first start meets to the second, and COUNT=0.
LimitEdgeRules ==
  { MkRule("DAILY", "", "", "20240103T100000Z", <<>>, <<>>),
    MkRule("DAILY", "2", "", "20240103T100000Z", <<>>, <<>>),
    MkRule("DAILY", "", "0", "", <<>>, <<>>),
    MkRule("WEEKLY", "", "0", "", <<>>, <<>>),
    MkRule("YEARLY", "", "0", "20240110", <<>>, <<>>) }
RuleChoices ==
  MalformedRules \cup LimitEdgeRules \cup
  UNION { { MkRule(f, i, c, u, by[1], by[2]) :
              i \in IntervalChoices, c \in CountChoices,
              u \in UntilChoices, by \in ByChoices(f) }
          : f \in FreqChoices }

\* The layout engine is idle.
LayoutIdle ==
  /\ lpc = "idle"
  /\ events = <<>>
  /\ sorted_events = <<>>
  /\ groups = <<>>
  /\ first_events = <<>>
  /\ first_sorted = <<>>

ExpandInit ==
  /\ epc = "call"
  /\ start_datetime_str \in StartChoices
  /\ \E d \in DurationChoices :
       end_datetime_str = Strftime(AddSeconds(Strptime(start_datetime_str), d))
  /\ rrule_str \in RuleChoices
  /\ max_instances \in 1..MaxInstances
  /\ parsed = <<>>
  /\ current_dt = <<>>
  /\ LayoutIdle
  /\ DbIdle
  /\ CodecIdle
  /\ instance_count = 0
  /\ instances = <<>>

\* Lines 23-56: the arguments are parsed and the loop's locals set up.
ExpandCall ==
  /\ epc = "call"
  /\ IF ParseRaises(rrule_str)
     THEN /\ epc' = "raised"
          /\ UNCHANGED <<parsed, current_dt, instance_count, instances>>
     ELSE /\ epc' = "loop"
          /\ parsed' = ParseRule(rrule_str)
          /\ current_dt' = start_dt
          /\ instance_count' = 0
          /\ instances' = <<>>
  /\ UNCHANGED <<start_datetime_str, end_datetime_str, rrule_str, max_instances>>
  /\ UNCHANGED <<layoutVars, dbVars, codecVars>>

\* Lines 58-138: one turn of the while loop that does not break.
ExpandIterate ==
  /\ epc = "loop"
  /\ ~LimitReached(parsed, max_instances, current_dt, instance_count)
  /\ LET include_instance == IncludeInstance(parsed, start_dt, current_dt)
         instance_end_dt == AddSeconds(current_dt, duration)
         next == NextCandidate(parsed, current_dt, include_instance)
     IN IF (include_instance /\ Raised(instance_end_dt)) \/ Raised(next)
        THEN /\ epc' = "raised"
             /\ UNCHANGED <<current_dt, instance_count, instances>>
        ELSE /\ epc' = "loop"
             /\ current_dt' = next
             /\ instance_count' =
                  IF include_instance THEN instance_count + 1 ELSE instance_count
             /\ instances' =
                  IF include_instance
                  THEN Append(instances,
                              <<Strftime(current_dt), Strftime(instance_end_dt)>>)
                  ELSE instances
  /\ UNCHANGED <<start_datetime_str, end_datetime_str, rrule_str, max_instances,
                 parsed>>
  /\ UNCHANGED <<layoutVars, dbVars, codecVars>>

\* Lines 60-65 and 140: a limit is reached, the loop breaks, instances is returned.
ExpandReturn ==
  /\ epc = "loop"
  /\ LimitReached(parsed, max_instances, current_dt, instance_count)
  /\ epc' = "done"
  /\ UNCHANGED <<start_datetime_str, end_datetime_str, rrule_str, max_instances,
                 parsed, current_dt, instance_count, instances>>
  /\ UNCHANGED <<layoutVars, dbVars, codecVars>>


(***************************************************************************)
(* THE EVENTS TABLE  (src/database.py, src/utils/recurring_events.py)      *)
(*                                                                         *)
(* A row is a record of the table's columns.  A column that holds text or  *)
(* NULL is [null, text]; recurrence_id is the number of the uuid4() value  *)
(* (the n-th generated is n), 0 for NULL.  On a table without the three    *)
(* recurrence columns a row holds NULL in their fields.                    *)
(***************************************************************************)
\* The bounds of the table: rows ever inserted, series ever created.
MaxRows == 3
MaxSeries == 2

\* Line 10: max_instances=730
DefaultMaxInstances == 730

RECURSIVE ExpandLoop(_, _, _, _, _, _)
\* Lines 58-140: the while loop run to its break; [raised, instances].
ExpandLoop(r, start, dur, max, cur, insts) ==
  IF LimitReached(r, max, cur, Len(insts))
  THEN [raised |-> FALSE, instances |-> insts]
  ELSE LET include_instance == IncludeInstance(r, start, cur)
           instance_end_dt == AddSeconds(cur, dur)
           next == NextCandidate(r, cur, include_instance)
       IN IF (include_instance /\ Raised(instance_end_dt)) \/ Raised(next)
          THEN [raised |-> TRUE, instances |-> <<>>]
          ELSE ExpandLoop(r, start, dur, max, next,
                          IF include_instance
                          THEN Append(insts, <<Strftime(cur),
                                               Strftime(instance_end_dt)>>)
                          ELSE insts)

\* expand_rrule as a whole, for a rule whose loop ends.
expand_rrule(start_str, end_str, rule, max) ==
  IF ParseRaises(rule) THEN [raised |-> TRUE, instances |-> <<>>]
  ELSE ExpandLoop(ParseRule(rule), Strptime(start_str),
                  ToSeconds(Strptime(end_str)) - ToSeconds(Strptime(start_str)),
                  max, Strptime(start_str), <<>>)

NoText == [null |-> TRUE, text |-> <<>>]
Text(t) == [null |-> FALSE, text |-> t]
\* Python's truth of a column value: neither None nor ''.
Truthy(v) == ~v.null /\ v.text # <<>> /\ v.text # ""

Row(id, start, end, title, description, tag, user_id, recurrence_id, rrule, original_start) ==
  [id |-> id, start_datetime |-> start, end_datetime |-> end, title |-> title,
   description |-> description, tag |-> tag, user_id |-> user_id,
   recurrence_id |-> recurrence_id, rrule |-> rrule,
   original_start |-> original_start]

Call(op, args, raised, value) ==
  [op |-> op, args |-> args, raised |-> raised, value |-> value]

\* The arguments the model hands to the calls.
DbStartEnd ==
  { << <<2024, 1, 1, 10, 0, 0>>, <<2024, 1, 1, 11, 0, 0>> >>,
    << <<2024, 2, 29, 23, 30, 0>>, <<2024, 3, 1, 0, 30, 0>> >> }
\* Rows are inserted for user 1 under the title "standup"; the series calls
\* are made for either user and updates set the title "review".
Users == {1, 2}
\* Non-empty rules whose expansion ends: two or three instances, none (the
\* UNTIL lies before the later start), or ValueError (YEARLY from the leap
\* day); the starts are a Monday and a Thursday.
DbRuleChoices ==
  { MkRule("DAILY", "", "2", "", <<>>, <<>>),
    MkRule("WEEKLY", "", "3", "", <<"MO", "TH">>, <<>>),
    MkRule("DAILY", "", "", "20240110", <<>>, <<>>),
    MkRule("YEARLY", "", "2", "", <<>>, <<>>) }

\* src/database.py init_db: an events table that exists is kept with the
\* columns it has; a new one is created without the recurrence columns.
DbInit ==
  /\ recurrence_columns \in BOOLEAN
  /\ events_table = <<>>
  /\ lastrowid = 0
  /\ uuid_count = 0
  /\ last_call = Call("init_db", <<>>, FALSE, <<>>)
  /\ LayoutIdle
  /\ ExpandIdle
  /\ CodecIdle

add_event(start, end, title, description, tag, user_id) ==
  /\ lastrowid < MaxRows
  /\ events_table' =
       Append(events_table,
              Row(lastrowid + 1, start, end, title, description, tag, user_id,
                  0, NoText, NoText))
  /\ lastrowid' = lastrowid + 1
  /\ last_call' = Call("add_event", <<>>, FALSE, <<lastrowid + 1>>)
  /\ UNCHANGED <<recurrence_columns, uuid_count>>
  /\ UNCHANGED <<layoutVars, expandVars, codecVars>>

\* Lines 174-180: the rows of the instances; idx is k - 1.
SeriesRows(insts, start, title, description, tag, user_id, rid, rrule) ==
  [k \in 1..Len(insts) |->
     Row(lastrowid + k, insts[k][1], insts[k][2], title, description, tag,
         user_id, rid, IF k - 1 = 0 THEN Text(rrule) ELSE NoText, Text(start))]

\* What expand_rrule returns for the arguments of the model.
Expansions ==
  [a \in DbStartEnd \X DbRuleChoices |->
     expand_rrule(a[1][1], a[1][2], a[2], DefaultMaxInstances)]

create_recurring_event(start, end, title, description, tag, user_id, rrule) ==
  LET recurrence_id == uuid_count + 1
      ex == Expansions[<<<<start, end>>, rrule>>]
      args == <<start, end, title, user_id, rrule>>
  IN /\ uuid_count < MaxSeries
     /\ ~ex.raised => lastrowid + Len(ex.instances) <= MaxRows
     /\ uuid_count' = recurrence_id
     /\ IF ex.raised \/ (ex.instances # <<>> /\ ~recurrence_columns)
        THEN \* ValueError or OverflowError of expand_rrule, or
             \* sqlite3.OperationalError of the first INSERT: nothing committed
             /\ last_call' = Call("create_recurring_event", args, TRUE, <<>>)
             /\ UNCHANGED <<events_table, lastrowid>>
        ELSE /\ events_table' =
                  events_table \o SeriesRows(ex.instances, start, title,
                                             description, tag, user_id,
                                             recurrence_id, rrule)
             /\ lastrowid' = lastrowid + Len(ex.instances)
             /\ last_call' = Call("create_recurring_event", args, FALSE,
                                  <<recurrence_id, Len(ex.instances)>>)
     /\ UNCHANGED recurrence_columns
     /\ UNCHANGED <<layoutVars, expandVars, codecVars>>

\* WHERE recurrence_id = ? AND user_id = ?
InSeries(row, recurrence_id, user_id) ==
  row.recurrence_id = recurrence_id /\ row.user_id = user_id

delete_recurring_series(recurrence_id, user_id) ==
  /\ IF ~recurrence_columns
     THEN /\ last_call' = Call("delete_recurring_series", <<>>, TRUE, <<>>)
          /\ UNCHANGED events_table
     ELSE LET keep(row) == ~InSeries(row, recurrence_id, user_id)
              count == Len(events_table) - Len(SelectSeq(events_table, keep))
          IN /\ events_table' = SelectSeq(events_table, keep)
             /\ last_call' = Call("delete_recurring_series", <<>>, FALSE, <<count>>)
  /\ UNCHANGED <<recurrence_columns, lastrowid, uuid_count>>
  /\ UNCHANGED <<layoutVars, expandVars, codecVars>>

update_recurring_series(recurrence_id, user_id, title, description, tag) ==
  /\ IF ~recurrence_columns
     THEN /\ last_call' = Call("update_recurring_series", <<>>, TRUE, <<>>)
          /\ UNCHANGED events_table
     ELSE LET hit(row) == InSeries(row, recurrence_id, user_id)
          IN /\ events_table' =
                  [k \in 1..Len(events_table) |->
                     IF hit(events_table[k])
                     THEN [events_table[k] EXCEPT !.title = title,
                                                  !.description = description,
                                                  !.tag = tag]
                     ELSE events_table[k]]
             /\ last_call' = Call("update_recurring_series", <<>>, FALSE,
                                  <<Len(SelectSeq(events_table, hit))>>)
  /\ UNCHANGED <<recurrence_columns, lastrowid, uuid_count>>
  /\ UNCHANGED <<layoutVars, expandVars, codecVars>>

update_event(event_id, start, end, title, description, tag) ==
  /\ events_table' =
       [k \in 1..Len(events_table) |->
          IF events_table[k].id = event_id
          THEN [events_table[k] EXCEPT !.start_datetime = start,
                                       !.end_datetime = end,
                                       !.title = title,
                                       !.description = description,
                                       !.tag = tag]
          ELSE events_table[k]]
  /\ last_call' = Call("update_event", <<>>, FALSE, <<>>)
  /\ UNCHANGED <<recurrence_columns, lastrowid, uuid_count>>
  /\ UNCHANGED <<layoutVars, expandVars, codecVars>>

delete_event(event_id) ==
  /\ LET keep(row) == row.id # event_id
     IN events_table' = SelectSeq(events_table, keep)
  /\ last_call' = Call("delete_event", <<>>, FALSE, <<>>)
  /\ UNCHANGED <<recurrence_columns, lastrowid, uuid_count>>
  /\ UNCHANGED <<layoutVars, expandVars, codecVars>>


(***************************************************************************)
(* build_rrule_string  (src/utils/recurring_events.py)                     *)
(*                                                                         *)
(* The string returned is the sequence of the parts joined by ';', each    *)
(* part a segment [eq, key, value] as the rule strings above.              *)
(***************************************************************************)
\* f'KEY={value}'
Seg(key, value) == [eq |-> TRUE, key |-> key, value |-> value]

\* str(n) of every number of a list.
StrAll(ns) == [k \in 1..Len(ns) |-> Numeral(ns[k])]

\* Python's truth of an optional argument: None, 0, '' and [] are false.
GivenInt(opt) == opt # <<>> /\ opt[1] # 0
GivenText(opt) == opt # <<>> /\ opt[1] # ""
GivenList(opt) == opt # <<>> /\ opt[1] # <<>>

\* A mutant of build_rrule_string: BYDAY is appended before COUNT/UNTIL.
BuildByDayFirst(freq, interval, count, until, byday, bymonthday) ==
  <<Seg("FREQ", <<Upper(freq)>>)>>
  \o (IF GivenInt(interval) /\ interval[1] > 1
      THEN <<Seg("INTERVAL", <<Numeral(interval[1])>>)>> ELSE <<>>)
  \o (IF GivenList(byday) THEN <<Seg("BYDAY", byday[1])>> ELSE <<>>)
  \o (IF GivenInt(count) THEN <<Seg("COUNT", <<Numeral(count[1])>>)>>
      ELSE IF GivenText(until) THEN <<Seg("UNTIL", <<until[1]>>)>> ELSE <<>>)
  \o (IF GivenList(bymonthday)
      THEN <<Seg("BYMONTHDAY", StrAll(bymonthday[1]))>> ELSE <<>>)

\* A mutant of build_rrule_string: `elif until` is `if until`.
BuildBothLimits(freq, interval, count, until, byday, bymonthday) ==
  <<Seg("FREQ", <<Upper(freq)>>)>>
  \o (IF GivenInt(interval) /\ interval[1] > 1
      THEN <<Seg("INTERVAL", <<Numeral(interval[1])>>)>> ELSE <<>>)
  \o (IF GivenInt(count) THEN <<Seg("COUNT", <<Numeral(count[1])>>)>> ELSE <<>>)
  \o (IF GivenText(until) THEN <<Seg("UNTIL", <<until[1]>>)>> ELSE <<>>)
  \o (IF GivenList(byday) THEN <<Seg("BYDAY", byday[1])>> ELSE <<>>)
  \o (IF GivenList(bymonthday)
      THEN <<Seg("BYMONTHDAY", StrAll(bymonthday[1]))>> ELSE <<>>)

\* Lines 269-285.
build_rrule_string(freq, interval, count, until, byday, bymonthday) ==
  <<Seg("FREQ", <<Upper(freq)>>)>>
  \o (IF GivenInt(interval) /\ interval[1] > 1
      THEN <<Seg("INTERVAL", <<Numeral(interval[1])>>)>> ELSE <<>>)
  \o (IF GivenInt(count) THEN <<Seg("COUNT", <<Numeral(count[1])>>)>>
      ELSE IF GivenText(until) THEN <<Seg("UNTIL", <<until[1]>>)>> ELSE <<>>)
  \o (IF GivenList(byday) THEN <<Seg("BYDAY", byday[1])>> ELSE <<>>)
  \o (IF GivenList(bymonthday)
      THEN <<Seg("BYMONTHDAY", StrAll(bymonthday[1]))>> ELSE <<>>)

\* The arguments the model hands to build_rrule_string.
BuildFreqs == {"DAILY", "WEEKLY", "weekly"}
BuildIntervals == {<<>>, <<0>>, <<1>>, <<2>>}
BuildCounts == {<<>>, <<0>>, <<3>>}
BuildUntils == {<<>>, <<"">>, <<"20241231">>}
BuildByDays == {<<>>, << <<>> >>, << <<"MO", "FR">> >>}
BuildByMonthDays == {<<>>, << <<15>> >>, << <<1, 15>> >>}

BuildInit ==
  /\ bpc = "call"
  /\ build_args \in [freq : BuildFreqs, interval : BuildIntervals,
                     count : BuildCounts, until : BuildUntils,
                     byday : BuildByDays, bymonthday : BuildByMonthDays]
  /\ rrule_built = <<>>
  /\ LayoutIdle
  /\ ExpandIdle
  /\ DbIdle
  /\ ExportIdle

BuildCall ==
  /\ bpc = "call"
  /\ rrule_built' =
       build_rrule_string(build_args.freq, build_args.interval,
                          build_args.count, build_args.until,
                          build_args.byday, build_args.bymonthday)
  /\ bpc' = "done"
  /\ UNCHANGED build_args
  /\ UNCHANGED <<layoutVars, expandVars, dbVars, exportVars>>


(***************************************************************************)
(* The specifications.                                                     *)
(***************************************************************************)
Next ==
  \/ Layout
  \/ LayoutAgain

\* The views laying out a day's events.
Spec == LayoutInit /\ [][Next]_vars

ExpandNext ==
  \/ ExpandCall
  \/ ExpandIterate
  \/ ExpandReturn

\* One call of expand_rrule.
SpecExpand == ExpandInit /\ [][ExpandNext]_vars

DbNext ==
  \/ add_event(<<2024, 1, 1, 10, 0, 0>>, <<2024, 1, 1, 11, 0, 0>>, "standup",
               "", "", 1)
  \/ \E se \in DbStartEnd, rrule \in DbRuleChoices :
       create_recurring_event(se[1], se[2], "standup", "", "", 1, rrule)
  \/ \E recurrence_id \in 1..MaxSeries, user_id \in Users :
       delete_recurring_series(recurrence_id, user_id)
  \/ \E recurrence_id \in 1..MaxSeries, user_id \in Users :
       update_recurring_series(recurrence_id, user_id, "review", "", "")
  \/ \E event_id \in 1..(lastrowid + 1) :
       update_event(event_id, <<2024, 1, 1, 10, 0, 0>>, <<2024, 1, 1, 11, 0, 0>>,
                    "review", "", "")
  \/ \E event_id \in 1..(lastrowid + 1) :
       delete_event(event_id)

\* The calls that change the events table, in any order.
SpecDb == DbInit /\ [][DbNext]_vars


BuildNext == BuildCall

\* One call of build_rrule_string.
SpecBuild == BuildInit /\ [][BuildNext]_vars

(***************************************************************************)
(* generate_ics (src/utils/ics_exporter.py).  A text is the sequence of    *)
(* its characters.  The ICS text returned is kept as the sequence of its   *)
(* VEVENT blocks, a block being the record of its content lines: uid,      *)
(* dtstart, dtend, summary, description (<<>> when the line is absent),    *)
(* rrule (likewise) and dtstamp.  The VCALENDAR header and footer lines    *)
(* are the same in every call and are left out.                            *)
(***************************************************************************)
MaxText == 2
MaxIcsEvents == 2

Backslash == "\\"
Newline == "\n"

\* The characters texts are made of: two ordinary ones and the four that
\* escape_ics_text replaces.
Chars == {"a", "n", Backslash, ",", ";", Newline}

TextsUpTo(n) == UNION {[1..k -> Chars] : k \in 0..n}

RECURSIVE ReplaceAll(_, _, _)
\* text.replace(c, by) for a single character c.
ReplaceAll(text, c, by) ==
  IF text = <<>> THEN <<>>
  ELSE (IF Head(text) = c THEN by ELSE <<Head(text)>>)
         \o ReplaceAll(Tail(text), c, by)

\* Lines 170-188.  `if not text` covers None and ''.
escape_ics_text(text) ==
  IF text = <<>> THEN <<>>
  ELSE ReplaceAll(
         ReplaceAll(
           ReplaceAll(
             ReplaceAll(text, Backslash, <<Backslash, Backslash>>),
             ",", <<Backslash, ",">>),
           ";", <<Backslash, ";">>),
         Newline, <<Backslash, "n">>)

\* An event dictionary.  recurrence_id is 0 when the key is absent or None;
\* rrule is NoText when absent or None; description is <<>> when absent,
\* None or ''.
IcsEvent(id, title, description, span, recurrence_id, rrule) ==
  [id |-> id, title |-> title, description |-> description,
   start_datetime |-> span[1], end_datetime |-> span[2],
   recurrence_id |-> recurrence_id, rrule |-> rrule]

\* dt.strftime('%Y%m%dT%H%M%S')
IcsStamp(dt) ==
  [date |-> <<dt.year, dt.month, dt.day>>,
   time |-> <<dt.hour, dt.minute, dt.second>>]

\* dt.strftime('%Y%m%d') on the days after the end dates the calls use.
YmdText ==
  [d \in {<<2024, 1, 10>>, <<2024, 3, 1>>} |->
     IF d = <<2024, 1, 10>> THEN "20240110" ELSE "20240301"]

\* datetime.strptime(f"{date} 00:00:00", '%Y-%m-%d %H:%M:%S')
Midnight(date) == Strptime(<<date[1], date[2], date[3], 0, 0, 0>>)

\* Lines 101-102: (end_dt + timedelta(days=1)).strftime('%Y%m%d')
until_str(date) ==
  LET next == AddDays(Midnight(date), 1)
  IN YmdText[<<next.year, next.month, next.day>>]

\* What is left of a first segment that the COUNT pattern matched whole:
\* the empty text before the ';' that follows it.
EmptySeg == [eq |-> FALSE, key |-> "", value |-> <<>>]

\* 'UNTIL=' in rrule_str
ContainsUntil(rule) ==
  \E k \in 1..Len(rule) : rule[k].eq /\ rule[k].key = "UNTIL"

\* 'COUNT=' in rrule_str
ContainsCount(rule) ==
  \E k \in 1..Len(rule) : rule[k].eq /\ rule[k].key = "COUNT"

\* The segments UNTIL=\d{8}(T\d{6}Z?)? matches: the UNTIL values the rules
\* use that are dates or date-times match whole, the others nowhere.
MatchesUntil(seg) ==
  /\ seg.eq
  /\ seg.key = "UNTIL"
  /\ Len(seg.value) = 1
  /\ seg.value[1] \in DOMAIN UntilText

\* The segments ;?COUNT=\d+ matches, with the ';' before them if any.
MatchesCount(seg) ==
  /\ seg.eq
  /\ seg.key = "COUNT"
  /\ Len(seg.value) = 1
  /\ IsNumeral(seg.value[1])

\* Line 108: re.sub(r'UNTIL=\d{8}(T\d{6}Z?)?', f'UNTIL={until}', rrule_str)
SubUntil(rule, until) ==
  [k \in 1..Len(rule) |->
     IF MatchesUntil(rule[k]) THEN Seg("UNTIL", <<until>>) ELSE rule[k]]

RECURSIVE SubCountFrom(_, _)
\* Line 112 on the segments from the k-th on: a matched segment goes with
\* the ';' before it; the first segment has none and leaves an empty text.
SubCountFrom(rule, k) ==
  IF k > Len(rule) THEN <<>>
  ELSE (IF MatchesCount(rule[k])
        THEN (IF k = 1 THEN <<EmptySeg>> ELSE <<>>)
        ELSE <<rule[k]>>)
         \o SubCountFrom(rule, k + 1)

\* Line 112: re.sub(r';?COUNT=\d+', '', rrule_str)
SubCount(rule) == SubCountFrom(rule, 1)

\* Lines 99-116: the rule with the end date as its UNTIL.
SubRule(rule, date) ==
  IF ContainsUntil(rule)
  THEN SubUntil(rule, until_str(date))
  ELSE IF ContainsCount(rule)
       THEN Append(SubCount(rule), Seg("UNTIL", <<until_str(date)>>))
       ELSE Append(rule, Seg("UNTIL", <<until_str(date)>>))

\* Lines 28-40: the recurrence ids in the order the dictionary holds them.
series_ids(evs) ==
  LET F[k \in 0..Len(evs)] ==
        IF k = 0 THEN <<>>
        ELSE IF /\ evs[k].recurrence_id # 0
                /\ \A j \in 1..(k - 1) :
                     evs[j].recurrence_id # evs[k].recurrence_id
             THEN Append(F[k - 1], evs[k].recurrence_id)
             ELSE F[k - 1]
  IN F[Len(evs)]

\* recurring_series[rid]
recurring_series(evs, rid) ==
  SelectSeq(evs, LAMBDA ev : ev.recurrence_id = rid)

\* master_event with `is not None` for the test of the rrule.
MasterNotNone(series) ==
  LET ruled == {k \in 1..Len(series) : ~series[k].rrule.null}
  IN IF ruled = {} THEN <<>>
     ELSE <<series[CHOOSE k \in ruled : \A j \in ruled : k <= j]>>

\* Lines 44-48: the first event of the series with a truthy rrule, as a
\* list of one; <<>> when there is none.
master_event(series) ==
  LET ruled == {k \in 1..Len(series) : Truthy(series[k].rrule)}
  IN IF ruled = {} THEN <<>>
     ELSE <<series[CHOOSE k \in ruled : \A j \in ruled : k <= j]>>

\* Lines 30-53: standalone_events when the loop over the series is over.
standalone_events(evs) ==
  LET ids == series_ids(evs)
      F[k \in 0..Len(ids)] ==
        IF k = 0 THEN SelectSeq(evs, LAMBDA ev : ev.recurrence_id = 0)
        ELSE IF master_event(recurring_series(evs, ids[k])) = <<>>
             THEN F[k - 1] \o recurring_series(evs, ids[k])
             ELSE F[k - 1]
  IN F[Len(ids)]

\* Lines 59-67 with the start moved whenever a start date is given.
ShiftAlways(master, sd) == sd # <<>>

\* Lines 59-62: whether the start is moved to the requested date.
Shifts(master, sd) ==
  /\ sd # <<>>
  /\ ToSeconds(Midnight(sd[1])) > ToSeconds(Strptime(master.start_datetime))

\* Lines 55-67: start_dt when the VEVENT is written.
ExportStart(master, sd) ==
  LET natural == Strptime(master.start_datetime)
  IN IF Shifts(master, sd)
     THEN [Midnight(sd[1]) EXCEPT !.hour = natural.hour,
                                  !.minute = natural.minute,
                                  !.second = natural.second]
     ELSE natural

\* Lines 56-67: end_dt when the VEVENT is written.
ExportEnd(master, sd) ==
  IF Shifts(master, sd)
  THEN AddSeconds(ExportStart(master, sd),
                  ToSeconds(Strptime(master.end_datetime))
                    - ToSeconds(Strptime(master.start_datetime)))
  ELSE Strptime(master.end_datetime)

\* Lines 42-124: the VEVENT of a series with a master.
SeriesVEvent(rid, master, sd, ed, now) ==
  [uid |-> [kind |-> "recurring", id |-> rid],
   dtstart |-> IcsStamp(ExportStart(master, sd)),
   dtend |-> IcsStamp(ExportEnd(master, sd)),
   summary |-> escape_ics_text(master.title),
   description |->
     IF escape_ics_text(master.description) = <<>> THEN <<>>
     ELSE <<escape_ics_text(master.description)>>,
   rrule |->
     IF ed = <<>> THEN <<master.rrule.text>>
     ELSE <<SubRule(master.rrule.text, ed[1])>>,
   dtstamp |-> now]

\* Lines 127-162: the VEVENT of a standalone event.
StandaloneVEvent(ev, now) ==
  [uid |-> [kind |-> "event", id |-> ev.id],
   dtstart |-> IcsStamp(Strptime(ev.start_datetime)),
   dtend |-> IcsStamp(Strptime(ev.end_datetime)),
   summary |-> escape_ics_text(ev.title),
   description |->
     IF escape_ics_text(ev.description) = <<>> THEN <<>>
     ELSE <<escape_ics_text(ev.description)>>,
   rrule |-> <<>>,
   dtstamp |-> now]

\* Lines 42-124: the VEVENTs of the series, in the order of series_ids.
SeriesVEvents(evs, sd, ed, now) ==
  LET ids == series_ids(evs)
      F[k \in 0..Len(ids)] ==
        IF k = 0 THEN <<>>
        ELSE LET master == master_event(recurring_series(evs, ids[k]))
             IN IF master = <<>> THEN F[k - 1]
                ELSE Append(F[k - 1],
                            SeriesVEvent(ids[k], master[1], sd, ed, now))
  IN F[Len(ids)]

\* generate_ics(events, start_date=sd, end_date=ed), called at time now.
generate_ics(evs, sd, ed, now) ==
  SeriesVEvents(evs, sd, ed, now)
    \o [k \in 1..Len(standalone_events(evs)) |->
          StandaloneVEvent(standalone_events(evs)[k], now)]

(***************************************************************************)
(* parse_ics_file (src/utils/ics_parser.py).  The calendar that            *)
(* Calendar.from_ical returns is the sequence of its VEVENT components; a  *)
(* component holds, for summary, description, rrule, dtstart and dtend,    *)
(* <<>> when component.get gives None and <<value>> otherwise.  A date or  *)
(* date-time value is [kind, dt, utc]: kind "date" or "datetime", dt the   *)
(* value (midnight for a date), utc whether it carries a time zone (UTC    *)
(* is the zone the model gives such values).                               *)
(***************************************************************************)
MaxComponents == 2

DateValue(y, m, d) ==
  [kind |-> "date", dt |-> Strptime(<<y, m, d, 0, 0, 0>>), utc |-> FALSE]

DateTimeValue(s, utc) == [kind |-> "datetime", dt |-> Strptime(s), utc |-> utc]

VEventComponent(summary, description, rrule, dtstart, dtend) ==
  [summary |-> summary, description |-> description, rrule |-> rrule,
   dtstart |-> dtstart, dtend |-> dtend]

\* Whether America/Los_Angeles keeps daylight time at the UTC time dt, for
\* the year 2024 the inputs lie in: from 10 March 10:00 to 3 November 09:00.
IsDaylightTime(dt) ==
  /\ ToSeconds(dt) >= ToSeconds(Strptime(<<2024, 3, 10, 10, 0, 0>>))
  /\ ToSeconds(dt) < ToSeconds(Strptime(<<2024, 11, 3, 9, 0, 0>>))

\* Lines 70-75, 84-87: the value as a naive datetime, in local time when it
\* carried a zone.
LocalNaive(v) ==
  IF v.utc
  THEN AddSeconds(v.dt, IF IsDaylightTime(v.dt) THEN -7 * 3600 ELSE -8 * 3600)
  ELSE v.dt

\* datetime.combine(d, datetime.min.time().replace(hour=h))
Combine(d, h) == [d EXCEPT !.hour = h, !.minute = 0, !.second = 0]

\* Line 41: the title of an event without summary, or with an empty one.
NoTitle == <<"(no title)">>

\* Lines 64-78: start_dt.
ParsedStart(c) ==
  IF c.dtstart[1].kind = "datetime" THEN LocalNaive(c.dtstart[1])
  ELSE Combine(c.dtstart[1].dt, 9)

\* Lines 81-94: end_dt.
ParsedEnd(c) ==
  IF c.dtend # <<>>
  THEN IF c.dtend[1].kind = "datetime" THEN LocalNaive(c.dtend[1])
       ELSE Combine(c.dtend[1].dt, 17)
  ELSE AddSeconds(ParsedStart(c), 3600)

\* Lines 37-98: the event dictionary of a component that has a DTSTART.
ParsedEvent(c) ==
  [title |-> IF c.summary # <<>> /\ c.summary[1] # <<>>
             THEN c.summary[1] ELSE NoTitle,
   description |-> IF c.description # <<>> THEN c.description[1] ELSE <<>>,
   rrule |-> IF c.rrule # <<>> /\ c.rrule[1] # <<>>
             THEN Text(c.rrule[1]) ELSE NoText,
   start_datetime |-> Strftime(ParsedStart(c)),
   end_datetime |-> Strftime(ParsedEnd(c))]

\* The loop of lines 35-100 with a component without DTSTART ending it.
ParseStopsAtNoStart(comps) ==
  LET bad == {k \in 1..Len(comps) : comps[k].dtstart = <<>>}
      n == IF bad = {} THEN Len(comps)
           ELSE (CHOOSE k \in bad : \A j \in bad : k <= j) - 1
  IN [k \in 1..n |-> ParsedEvent(comps[k])]

\* Lines 33-102: the events of the components comps.
parse_events(comps) ==
  LET F[k \in 0..Len(comps)] ==
        IF k = 0 THEN <<>>
        ELSE IF comps[k].dtstart = <<>> THEN F[k - 1]
             ELSE Append(F[k - 1], ParsedEvent(comps[k]))
  IN F[Len(comps)]

RECURSIVE Unescape(_)
\* The decoding of a TEXT value by RFC 5545, section 3.3.11, read from the
\* left: a backslash and the character after it stand for one character.
Unescape(text) ==
  IF text = <<>> THEN <<>>
  ELSE IF Head(text) = Backslash /\ Len(text) >= 2
       THEN <<IF text[2] = "n" THEN Newline ELSE text[2]>>
              \o Unescape(Tail(Tail(text)))
       ELSE <<Head(text)>> \o Unescape(Tail(text))

\* The date-time an ICS value YYYYMMDDTHHMMSS stands for.
FromStamp(st) == DateTimeValue(st.date \o st.time, FALSE)

\* Line 29: Calendar.from_ical on a text generate_ics wrote.
from_ical(text) ==
  [k \in 1..Len(text) |->
     VEventComponent(<<Unescape(text[k].summary)>>,
               IF text[k].description = <<>> THEN <<>>
               ELSE <<Unescape(text[k].description[1])>>,
               text[k].rrule,
               <<FromStamp(text[k].dtstart)>>,
               <<FromStamp(text[k].dtend)>>)]

\* parse_ics_file(file_content) for the text generate_ics wrote.
parse_ics_file(text) == parse_events(from_ical(text))

(***************************************************************************)
(* The calls of generate_ics and parse_ics_file.                           *)
(***************************************************************************)
\* The (start_datetime, end_datetime) pairs of the events: a Monday
\* morning, and an hour across the end of a leap February.
IcsSpans ==
  {<<<<2024, 1, 1, 10, 0, 0>>, <<2024, 1, 1, 11, 0, 0>>>>,
   <<<<2024, 2, 29, 23, 30, 0>>, <<2024, 3, 1, 0, 30, 0>>>>}

\* The rules the series carry: without end, with COUNT, with UNTIL (as a
\* date, as a date-time, in the middle), with COUNT first, with both.
IcsRules ==
  {<<Seg("FREQ", <<"DAILY">>)>>,
   <<Seg("FREQ", <<"DAILY">>), Seg("COUNT", <<"3">>)>>,
   <<Seg("FREQ", <<"DAILY">>), Seg("UNTIL", <<"20240301">>)>>,
   <<Seg("FREQ", <<"WEEKLY">>), Seg("UNTIL", <<"20240110T100000Z">>),
     Seg("BYDAY", <<"MO", "WE">>)>>,
   <<Seg("COUNT", <<"3">>), Seg("FREQ", <<"DAILY">>)>>,
   <<Seg("FREQ", <<"DAILY">>), Seg("COUNT", <<"3">>),
     Seg("UNTIL", <<"20240110">>)>>}

\* The rrule of an event of a series: absent, '', or a rule.
IcsRruleChoices == {NoText, Text(<<>>)} \cup {Text(r) : r \in IcsRules}

\* The events of a call but for their ids: an event outside every series,
\* or one of series 1 or 2, which starts late on a leap day.
IcsShapes ==
  {IcsEvent(0, t[1], t[2], span, 0, NoText) :
     t \in {<<<<"a">>, <<>>>>}, span \in IcsSpans}
  \cup {IcsEvent(0, <<"a">>, <<>>, span, rid, rule) :
          span \in {CHOOSE s \in IcsSpans : s[1][2] = 2},
          rid \in 1..2,
          rule \in IcsRruleChoices}
  \cup {IcsEvent(0, <<"a", ",">>, <<"n">>, span, rid, rule) :
          span \in {CHOOSE s \in IcsSpans : s[1][2] = 2},
          rid \in 1..2,
          rule \in {NoText, Text(<<Seg("FREQ", <<"DAILY">>)>>)}}

\* The list of the events f[1] .. f[n]: the k-th event has id k.
IcsList(n, f) == [k \in 1..n |-> [f[k] EXCEPT !.id = k]]

\* The lists of events outside every series, of many texts when alone.
IcsTextLists ==
  {<<IcsEvent(1, t, d, span, 0, NoText)>> :
     t \in TextsUpTo(MaxText), d \in TextsUpTo(1), span \in IcsSpans}
  \cup UNION {{[k \in 1..n |->
                  IcsEvent(k, f[k], <<>>, CHOOSE s \in IcsSpans : s[1][2] = 1,
                           0, NoText)] : f \in [1..n -> TextsUpTo(1)]} :
                n \in 2..MaxIcsEvents}

\* start_date: None, a day before the start of a series, the day of the
\* start, a day after it.
StartDateChoices ==
  {<<>>, <<<<2024, 1, 15>>>>, <<<<2024, 2, 29>>>>, <<<<2024, 3, 5>>>>}

\* end_date: None or a day.
EndDateChoices == {<<>>, <<<<2024, 1, 9>>>>, <<<<2024, 2, 29>>>>}

\* datetime.now() at the call.
NowChoices == {IcsStamp(Strptime(<<2024, 6, 1, 12, 0, 0>>))}

\* A call of generate_ics on events of series.
IcsInit ==
  /\ xpc = "call"
  /\ \E n \in 0..MaxIcsEvents : \E f \in [1..n -> IcsShapes] :
       ics_events = IcsList(n, f)
  /\ start_date \in StartDateChoices
  /\ end_date \in EndDateChoices
  /\ ics_text = <<>>
  /\ cal = <<>>
  /\ upload = <<>>
  /\ events_back = <<>>
  /\ LayoutIdle
  /\ ExpandIdle
  /\ DbIdle
  /\ BuildIdle

\* A call of generate_ics on events outside every series, whose text is
\* then given to parse_ics_file.
RoundTripInit ==
  /\ xpc = "call"
  /\ ics_events \in IcsTextLists
  /\ start_date \in {<<>>, <<<<2024, 1, 15>>>>}
  /\ end_date \in {<<>>, <<<<2024, 1, 9>>>>}
  /\ ics_text = <<>>
  /\ cal = <<>>
  /\ upload = <<>>
  /\ events_back = <<>>
  /\ LayoutIdle
  /\ ExpandIdle
  /\ DbIdle
  /\ BuildIdle

\* generate_ics(ics_events, start_date=start_date, end_date=end_date)
GenerateIcs ==
  /\ xpc = "call"
  /\ \E now \in NowChoices :
       ics_text' = generate_ics(ics_events, start_date, end_date, now)
  /\ xpc' = "generated"
  /\ UNCHANGED <<ics_events, start_date, end_date, cal, upload, events_back>>
  /\ UNCHANGED <<layoutVars, expandVars, dbVars, buildVars>>

\* parse_ics_file on the text generate_ics returned.
ParseBack ==
  /\ xpc = "generated"
  /\ cal' = from_ical(ics_text)
  /\ events_back' = parse_ics_file(ics_text)
  /\ xpc' = "parsed"
  /\ UNCHANGED <<ics_events, start_date, end_date, ics_text, upload>>
  /\ UNCHANGED <<layoutVars, expandVars, dbVars, buildVars>>

\* The values of DTSTART: absent, a date, a date-time without zone, one
\* in UTC in winter and one in summer.
DtStartChoices ==
  {<<>>,
   <<DateValue(2024, 1, 1)>>,
   <<DateTimeValue(<<2024, 1, 1, 10, 0, 0>>, FALSE)>>,
   <<DateTimeValue(<<2024, 1, 5, 2, 30, 0>>, TRUE)>>,
   <<DateTimeValue(<<2024, 7, 1, 23, 30, 0>>, TRUE)>>}

\* The values of DTEND: absent, the date of the start, a later date, a
\* date-time without zone, one in UTC.
DtEndChoices ==
  {<<>>,
   <<DateValue(2024, 1, 1)>>,
   <<DateValue(2024, 1, 3)>>,
   <<DateTimeValue(<<2024, 1, 1, 11, 0, 0>>, FALSE)>>,
   <<DateTimeValue(<<2024, 7, 2, 0, 30, 0>>, TRUE)>>}

\* summary, description and rrule of a component: all absent, all given,
\* or an empty summary alone.
TextChoices ==
  {<<<<>>, <<>>, <<>>>>,
   <<<<<<"a">>>>, <<<<"n">>>>, <<<<Seg("FREQ", <<"DAILY">>)>>>>>>,
   <<<<<<>>>>, <<>>, <<>>>>}

ComponentChoices ==
  {VEventComponent(t[1], t[2], t[3], s, e) :
     t \in TextChoices, s \in DtStartChoices, e \in DtEndChoices}

\* A call of parse_ics_file on a file whose calendar is cal.
ParseInit ==
  /\ xpc = "decoded"
  /\ cal \in UNION {[1..n -> ComponentChoices] : n \in 0..MaxComponents}
  /\ upload = <<>>
  /\ ics_events = <<>>
  /\ start_date = <<>>
  /\ end_date = <<>>
  /\ ics_text = <<>>
  /\ events_back = <<>>
  /\ LayoutIdle
  /\ ExpandIdle
  /\ DbIdle
  /\ BuildIdle

\* parse_ics_file(file_content), the file decoded to cal.
ParseCall ==
  /\ xpc = "decoded"
  /\ events_back' = parse_events(cal)
  /\ xpc' = "parsed"
  /\ UNCHANGED <<ics_events, start_date, end_date, ics_text, cal, upload>>
  /\ UNCHANGED <<layoutVars, expandVars, dbVars, buildVars>>

IcsNext == GenerateIcs

\* One call of generate_ics.
SpecIcs == IcsInit /\ [][IcsNext]_vars

RoundTripNext == GenerateIcs \/ ParseBack

\* generate_ics, then parse_ics_file on its text.
SpecRoundTrip == RoundTripInit /\ [][RoundTripNext]_vars

ParseNext == ParseCall

\* One call of parse_ics_file.
SpecParse == ParseInit /\ [][ParseNext]_vars

(***************************************************************************)
(* The import_ics route (src/app.py).  A request is [present, filename,    *)
(* valid, cal, tag, user]: whether request.files holds the field ics_file, *)
(* the name of the file as its characters, whether its bytes are a         *)
(* calendar Calendar.from_ical accepts, the VEVENT components of that      *)
(* calendar, the import_tag of the form and the id of the logged-in user.  *)
(***************************************************************************)
\* The functions src/utils/ics_parser.py defines (lines 11 and 105).
ParserFunctions == {"parse_ics_file", "get_event_count"}

\* Line 577: the function of ics_parser the route calls.
ParserCalled == "parse_ics"

\* filename.endswith('.ics')
EndsWithIcs(filename) ==
  /\ Len(filename) >= 4
  /\ SubSeq(filename, Len(filename) - 3, Len(filename)) = <<".", "i", "c", "s">>

\* Lines 555-569: the request is turned away before the file is read.
TurnedAway(u) ==
  \/ ~u.present
  \/ u.filename = <<>>
  \/ ~EndsWithIcs(u.filename)

\* Lines 576-577: the try block raises before the loop: the attribute
\* looked up on ics_parser does not exist (AttributeError), or the parser
\* raises ValueError for a file that is no calendar.
ImportRaises(u) == ParserCalled \notin ParserFunctions \/ ~u.valid

\* Lines 581-590: the rows add_event inserts for the events decoded.
ImportedRows(evs, tag, user) ==
  [k \in 1..Len(evs) |->
     Row(lastrowid + k, evs[k].start_datetime, evs[k].end_datetime,
         evs[k].title, evs[k].description, tag, user, 0, NoText, NoText)]

\* The file names of the requests: none, a.ics, a.txt, .ics and a.ICS.
FilenameChoices ==
  {<<>>, <<"a", ".", "i", "c", "s">>, <<"a", ".", "t", "x", "t">>,
   <<".", "i", "c", "s">>, <<"a", ".", "I", "C", "S">>}

\* The VEVENTs of the uploaded calendars: without SUMMARY and DTEND, with
\* every choice of DTSTART.
ImportComponents ==
  {c \in ComponentChoices : c.summary = <<>> /\ c.dtend = <<>>}

\* The rows the table holds before the request.
TableBefore ==
  {<<>>,
   <<Row(1, <<2024, 1, 1, 10, 0, 0>>, <<2024, 1, 1, 11, 0, 0>>, "standup",
         "", "", 1, 0, NoText, NoText)>>}

\* A request to import_ics on a database that init_db set up.
ImportInit ==
  /\ xpc = "upload"
  /\ \E present \in BOOLEAN, filename \in FilenameChoices, valid \in BOOLEAN,
        tag \in {"", "work"}, user \in Users :
       \E n \in 0..MaxComponents : \E f \in [1..n -> ImportComponents] :
         /\ (~valid => n = 0)
         /\ upload = <<[present |-> present, filename |-> filename,
                        valid |-> valid, cal |-> f, tag |-> tag,
                        user |-> user]>>
  /\ recurrence_columns \in BOOLEAN
  /\ events_table \in TableBefore
  /\ lastrowid = Len(events_table)
  /\ uuid_count = 0
  /\ last_call = Call("init_db", <<>>, FALSE, <<>>)
  /\ ics_events = <<>>
  /\ start_date = <<>>
  /\ end_date = <<>>
  /\ ics_text = <<>>
  /\ cal = <<>>
  /\ events_back = <<>>
  /\ LayoutIdle
  /\ ExpandIdle
  /\ BuildIdle

\* Lines 549-597: the route; the value of the call is the category of the
\* message flashed.
import_ics ==
  /\ xpc = "upload"
  /\ xpc' = "imported"
  /\ LET u == upload[1]
         evs == parse_events(u.cal)
     IN IF TurnedAway(u) \/ ImportRaises(u)
        THEN /\ last_call' = Call("import_ics", <<>>, FALSE, <<"error">>)
             /\ UNCHANGED <<events_table, lastrowid>>
        ELSE /\ events_table' =
                  events_table \o ImportedRows(evs, u.tag, u.user)
             /\ lastrowid' = lastrowid + Len(evs)
             /\ last_call' = Call("import_ics", <<>>, FALSE, <<"success">>)
  /\ UNCHANGED <<recurrence_columns, uuid_count>>
  /\ UNCHANGED <<ics_events, start_date, end_date, ics_text, cal, upload,
                 events_back>>
  /\ UNCHANGED <<layoutVars, expandVars, buildVars>>

ImportNext == import_ics

\* One request to the import_ics route.
SpecImport == ImportInit /\ [][ImportNext]_vars

(***************************************************************************)
(* Claims about expand_rrule.                                              *)
(***************************************************************************)
\* The start of the k-th instance returned so far, as a datetime.
InstanceStart(k) == Strptime(instances[k][1])
InstanceEnd(k) == Strptime(instances[k][2])

\* Days from the series' start to the k-th instance's start.
DayOffset(k) ==
  DayNumber(InstanceStart(k).year, InstanceStart(k).month, InstanceStart(k).day)
    - DayNumber(start_dt.year, start_dt.month, start_dt.day)

NoCountNoUntil == ~Has(rrule_str, "COUNT") /\ ~Has(rrule_str, "UNTIL")

\* C5: for every start/end pair and every rule with neither COUNT nor UNTIL,
\* whatever its FREQ, BYDAY or BYMONTHDAY, expand_rrule terminates (it neither
\* raises nor stays in its loop without changing anything) and returns at
\* most max_instances instances.
C5_TerminatesWithinCap ==
  NoCountNoUntil =>
    /\ epc # "raised"
    /\ epc \in {"call", "loop"} => ENABLED <<ExpandNext>>_vars
    /\ Len(instances) <= max_instances

IsDailyCount(n) == rrule_str = MkRule("DAILY", "", Numeral(n), "", <<>>, <<>>)

\* C6: for every start/end pair and every n with 1 <= n <= max_instances,
\* FREQ=DAILY;COUNT=n returns exactly n instances, the first starting at start,
\* each later one 24 hours after the previous, each lasting end - start.
C6_DailyCount ==
  \A n \in 1..MaxCount :
    (IsDailyCount(n) /\ n <= max_instances) =>
      /\ epc # "raised"
      /\ epc \in {"call", "loop"} => ENABLED <<ExpandNext>>_vars
      /\ epc = "done" =>
           /\ Len(instances) = n
           /\ instances[1][1] = start_datetime_str
           /\ \A k \in 1..(n - 1) :
                ToSeconds(InstanceStart(k + 1))
                  = ToSeconds(InstanceStart(k)) + 24 * 3600
           /\ \A k \in 1..n :
                ToSeconds(InstanceEnd(k)) - ToSeconds(InstanceStart(k))
                  = ToSeconds(end_dt) - ToSeconds(start_dt)

\* A DAILY;COUNT=3 call from the leap day has returned, its instances running
\* into March and each ending before it starts (end 30 minutes before start).
C6_Witness ==
  /\ epc = "done"
  /\ IsDailyCount(3)
  /\ max_instances = 3
  /\ start_datetime_str = <<2024, 2, 29, 23, 30, 0>>
  /\ ToSeconds(end_dt) < ToSeconds(start_dt)
  /\ Len(instances) = 3
  /\ instances[3][1] = <<2024, 3, 2, 23, 30, 0>>

IsMonthlyCount(i, n) == rrule_str = MkRule("MONTHLY", i, Numeral(n), "", <<>>, <<>>)

\* The date `months` months after dt, on dt's day-of-month or, in a shorter
\* month, on that month's last day.
ClampedMonth(dt, months) ==
  LET m0 == (dt.month - 1) + months
      y  == dt.year + (m0 \div 12)
      m  == (m0 % 12) + 1
      d  == IF dt.day <= DaysInMonth(y, m) THEN dt.day ELSE DaysInMonth(y, m)
  IN [dt EXCEPT !.year = y, !.month = m, !.day = d]

\* C7: FREQ=MONTHLY without BYMONTHDAY and with COUNT=n (n within the cap)
\* returns exactly n instances, one per interval months, each on the start's
\* day-of-month or, in a shorter month, on that month's last day.
C7_MonthlyClamped ==
  \A i \in IntervalChoices, n \in 1..MaxCount :
    (IsMonthlyCount(i, n) /\ n <= max_instances) =>
      /\ epc # "raised"
      /\ epc = "done" =>
           /\ Len(instances) = n
           /\ \A k \in 1..n :
                InstanceStart(k)
                  = ClampedMonth(start_dt,
                                 (k - 1) * (IF i = "" THEN 1 ELSE IntText[i]))

IsWeeklyMoWe(i, c, u) == rrule_str = MkRule("WEEKLY", i, c, u, <<"MO", "WE">>, <<>>)

\* The first date after dt that falls on a listed weekday, at dt's time.
NextListed(byday, dt) ==
  AddDays(dt, CHOOSE d \in 1..7 :
                /\ WeekdayListed(byday, AddDays(dt, d))
                /\ \A e \in 1..(d - 1) : ~WeekdayListed(byday, AddDays(dt, e)))

\* C8: FREQ=WEEKLY;BYDAY=MO,WE with INTERVAL absent or 1 and a start on a
\* listed weekday yields the start and then the successive dates on listed
\* weekdays; from a Monday, COUNT=4 returns exactly four instances 0, 2, 7
\* and 9 days after the start.
C8_SuccessiveListedDays ==
  \A i \in {"", "1"}, c \in CountChoices, u \in UntilChoices :
    (IsWeeklyMoWe(i, c, u) /\ WeekdayListed(<<"MO", "WE">>, start_dt)) =>
      /\ epc # "raised"
      /\ epc \in {"loop", "done"} =>
           /\ Len(instances) >= 1 => instances[1][1] = start_datetime_str
           /\ \A k \in 1..(Len(instances) - 1) :
                InstanceStart(k + 1) = NextListed(<<"MO", "WE">>, InstanceStart(k))
      /\ (epc = "done" /\ c = "4" /\ u = "" /\ max_instances >= 4
            /\ Weekday(start_dt) = 0) =>
           /\ Len(instances) = 4
           /\ <<DayOffset(1), DayOffset(2), DayOffset(3), DayOffset(4)>>
                = <<0, 2, 7, 9>>

\* FREQ=WEEKLY;BYDAY=MO,WE;COUNT=4 from Monday 2024-01-01 has returned its
\* four instances.
C8_Witness ==
  /\ epc = "done"
  /\ IsWeeklyMoWe("", "4", "")
  /\ start_datetime_str = <<2024, 1, 1, 10, 0, 0>>
  /\ Len(instances) = 4
  /\ instances[4][1] = <<2024, 1, 10, 10, 0, 0>>

\* C16: expand_rrule never raises, whatever the rule string (non-numeric or
\* missing INTERVAL/COUNT/BYMONTHDAY values, malformed UNTIL, segments without
\* '=') and whatever the start (February 29 with YEARLY, day 29-31 with
\* MONTHLY): it returns a list of instances.
C16_NeverRaises == epc # "raised"

UnknownFreq ==
  /\ Has(rrule_str, "FREQ")
  /\ Upper(Scalar(rrule_parts(rrule_str)["FREQ"]))
       \notin {"DAILY", "WEEKLY", "MONTHLY", "YEARLY"}

\* C17: for a FREQ other than DAILY, WEEKLY, MONTHLY and YEARLY expand_rrule
\* returns the empty list for every start/end pair, with or without COUNT or
\* UNTIL: it neither raises nor stays in its loop, and what it returns is empty.
C17_UnknownFreqEmpty ==
  UnknownFreq =>
    /\ epc # "raised"
    /\ epc \in {"call", "loop"} => ENABLED <<ExpandNext>>_vars
    /\ epc = "done" => instances = <<>>

\* The rule of the call as lines 34-48 read it, when they do not raise.
RuleRead == ParseRule(rrule_str)

\* The number of the week (Monday to Sunday) a datetime lies in.
WeekNumber(dt) == (DayNumber(dt.year, dt.month, dt.day) - Weekday(dt)) \div 7

\* The call is of FREQ=WEEKLY with BYDAY=MO,WE or BYDAY=TU.
WeeklyByDay ==
  /\ ~ParseRaises(rrule_str)
  /\ RuleRead.freq = "WEEKLY"
  /\ RuleRead.byday \in {<<"MO", "WE">>, <<"TU">>}

\* C22: for FREQ=WEEKLY with BYDAY and INTERVAL=k > 1, from a start on a
\* listed weekday, expand_rrule emits the listed weekdays of the start's
\* week and then jumps k weeks: successive instances lie in the same week
\* or exactly k weeks apart, and INTERVAL=2;BYDAY=MO,WE from a Monday gives
\* the days 0, 2, 14 and 16 after the start.
C22_IntervalWeeksApart ==
  (/\ WeeklyByDay
   /\ RuleRead.interval > 1
   /\ WeekdayListed(RuleRead.byday, start_dt)) =>
    /\ epc # "raised"
    /\ \A k \in 1..(Len(instances) - 1) :
         WeekNumber(InstanceStart(k + 1)) - WeekNumber(InstanceStart(k))
           \in {0, RuleRead.interval}
    /\ (/\ RuleRead.byday = <<"MO", "WE">>
        /\ Weekday(start_dt) = 0
        /\ Len(instances) >= 3) => DayOffset(3) = 14

\* The call is of a rule with UNTIL that lines 34-48 read.
HasUntil == ~ParseRaises(rrule_str) /\ RuleRead.until_dt # NoDt

\* The call is of FREQ=DAILY with an UNTIL that lies a whole number of
\* steps behind the start, near enough for COUNT and the cap.
DailyMeetsUntil ==
  /\ HasUntil
  /\ RuleRead.freq = "DAILY"
  /\ ToSeconds(RuleRead.until_dt) >= ToSeconds(start_dt)
  /\ (ToSeconds(RuleRead.until_dt) - ToSeconds(start_dt))
       % (RuleRead.interval * SecondsPerDay) = 0
  /\ LET n == (ToSeconds(RuleRead.until_dt) - ToSeconds(start_dt))
                \div (RuleRead.interval * SecondsPerDay) + 1
     IN /\ n <= max_instances
        /\ RuleRead.count # 0 => n <= RuleRead.count

\* C24: when the rule has UNTIL, no instance returned starts later than the
\* UNTIL timestamp (00:00:00 of the date for a date-only UNTIL), an
\* occurrence that starts exactly at UNTIL is returned, and the instances
\* come in strictly increasing start order, for every INTERVAL >= 1.
C24_UntilBound ==
  HasUntil =>
    /\ \A k \in 1..Len(instances) :
         ToSeconds(InstanceStart(k)) <= ToSeconds(RuleRead.until_dt)
    /\ \A k \in 1..(Len(instances) - 1) :
         ToSeconds(InstanceStart(k)) < ToSeconds(InstanceStart(k + 1))
    /\ (epc = "done" /\ DailyMeetsUntil) =>
         /\ instances # <<>>
         /\ InstanceStart(Len(instances)) = RuleRead.until_dt

\* C24 witness: FREQ=DAILY;INTERVAL=2;UNTIL=20240103T100000Z from
\* 2024-01-01 10:00 has returned, its second instance starting at UNTIL.
C24_Witness ==
  /\ epc = "done"
  /\ rrule_str = MkRule("DAILY", "2", "", "20240103T100000Z", <<>>, <<>>)
  /\ start_datetime_str = <<2024, 1, 1, 10, 0, 0>>
  /\ Len(instances) = 2
  /\ instances[2][1] = <<2024, 1, 3, 10, 0, 0>>

\* The call is of a rule with COUNT=n, n within the cap, and without UNTIL.
CountWithinCap ==
  /\ ~ParseRaises(rrule_str)
  /\ RuleRead.count >= 1
  /\ RuleRead.count <= max_instances
  /\ RuleRead.until_dt = NoDt

\* C25: for FREQ=MONTHLY with a non-empty BYMONTHDAY set of valid days and
\* COUNT=n, expand_rrule ends with exactly n instances, each on a day of
\* the set, for every start, also one whose day is not in the set, and for
\* sets of more than one day.
C25_MonthDayCount ==
  (/\ CountWithinCap
   /\ RuleRead.freq = "MONTHLY"
   /\ RuleRead.bymonthday # {}) =>
    /\ epc # "raised"
    /\ epc = "done" =>
         /\ Len(instances) = RuleRead.count
         /\ \A k \in 1..Len(instances) :
              InstanceStart(k).day \in RuleRead.bymonthday

\* C26: for FREQ=WEEKLY with BYDAY of valid weekdays and a start whose
\* weekday is not listed, expand_rrule with COUNT=n ends with n instances,
\* the first on the first listed weekday after the start.
C26_StartNotListed ==
  (/\ CountWithinCap
   /\ WeeklyByDay
   /\ ~WeekdayListed(RuleRead.byday, start_dt)) =>
    /\ epc # "raised"
    /\ epc = "done" =>
         /\ Len(instances) = RuleRead.count
         /\ InstanceStart(1) = NextListed(RuleRead.byday, start_dt)

\* C27: whenever the rule holds COUNT=n, expand_rrule returns at most n
\* instances, for every n >= 0 (COUNT=0 gives the empty list) and every
\* frequency.
C27_AtMostCount ==
  (~ParseRaises(rrule_str) /\ Has(rrule_str, "COUNT")) =>
    Len(instances) <= IntText[Scalar(rrule_parts(rrule_str)["COUNT"])]

(***************************************************************************)
(* Claims about the events table.                                          *)
(***************************************************************************)
\* The positions of the rows of a series, in rowid order.
SeriesOf(recurrence_id) ==
  {k \in 1..Len(events_table) : events_table[k].recurrence_id = recurrence_id}

\* C9: in every state the calls reach, every recurrence_id present in the
\* events table has exactly one row that carries a non-empty rrule.
C9_OneMasterPerSeries ==
  \A k \in 1..Len(events_table) :
    events_table[k].recurrence_id # 0 =>
      Cardinality({j \in SeriesOf(events_table[k].recurrence_id) :
                     Truthy(events_table[j].rrule)}) = 1

\* C10: create_recurring_event inserts one row per instance expand_rrule
\* returns, all with the same fresh recurrence_id; the first row carries the
\* rrule and original_start, every other row carries neither; the count it
\* returns is the number of rows inserted.
C10_FirstRowCarriesSeries ==
  LET a == last_call.args
  IN (last_call.op = "create_recurring_event"
        /\ ~Expansions[<<<<a[1], a[2]>>, a[5]>>].raised) =>
       /\ ~last_call.raised
       /\ LET insts == Expansions[<<<<a[1], a[2]>>, a[5]>>].instances
              recurrence_id == last_call.value[1]
              first == Len(events_table) - Len(insts) + 1
          IN /\ recurrence_id = uuid_count
             /\ SeriesOf(recurrence_id) = first..Len(events_table)
             /\ \A k \in 1..Len(insts) :
                  LET row == events_table[first + k - 1]
                  IN /\ row.start_datetime = insts[k][1]
                     /\ row.end_datetime = insts[k][2]
                     /\ row.rrule = IF k = 1 THEN Text(a[5]) ELSE NoText
                     /\ row.original_start = IF k = 1 THEN Text(a[1]) ELSE NoText
             /\ last_call.value[2] = Len(insts)

(***************************************************************************)
(* Claims about build_rrule_string.                                        *)
(***************************************************************************)
\* The place of a key in the fixed order; COUNT and UNTIL share one.
FieldRank(key) ==
  CASE key = "FREQ" -> 1 [] key = "INTERVAL" -> 2 [] key = "COUNT" -> 3
    [] key = "UNTIL" -> 3 [] key = "BYDAY" -> 4 [] key = "BYMONTHDAY" -> 5
    [] OTHER -> 0

BuiltKeys == {rrule_built[k].key : k \in 1..Len(rrule_built)}
BuiltValue(key) ==
  rrule_built[CHOOSE k \in 1..Len(rrule_built) : rrule_built[k].key = key].value

\* C11: the string built holds its fields in the order FREQ, INTERVAL (only
\* when interval > 1), COUNT or UNTIL, BYDAY, BYMONTHDAY, each at most once,
\* for every combination of arguments; ("WEEKLY", interval 2, no count, until
\* "20241231", byday MO,FR) gives FREQ=WEEKLY;INTERVAL=2;UNTIL=20241231;BYDAY=MO,FR.
C11_FixedFieldOrder ==
  bpc = "done" =>
    /\ Len(rrule_built) >= 1
    /\ rrule_built[1].key = "FREQ"
    /\ \A k \in 1..Len(rrule_built) : rrule_built[k].eq
    /\ \A k \in 1..(Len(rrule_built) - 1) :
         FieldRank(rrule_built[k].key) < FieldRank(rrule_built[k + 1].key)
    /\ "INTERVAL" \in BuiltKeys <=>
         (build_args.interval # <<>> /\ build_args.interval[1] > 1)
    /\ (build_args = [freq |-> "WEEKLY", interval |-> <<2>>, count |-> <<>>,
                      until |-> <<"20241231">>, byday |-> << <<"MO", "FR">> >>,
                      bymonthday |-> <<>>]) =>
         rrule_built = MkRule("WEEKLY", "2", "", "20241231", <<"MO", "FR">>, <<>>)

\* The call of the example has returned.
C11_Witness ==
  /\ bpc = "done"
  /\ build_args.freq = "WEEKLY"
  /\ build_args.interval = <<2>>
  /\ build_args.until = <<"20241231">>
  /\ build_args.byday = << <<"MO", "FR">> >>
  /\ Len(rrule_built) = 4

\* C18: the string built never holds both COUNT and UNTIL: with count and
\* until both given (a count other than 0, an until other than '') it holds
\* COUNT=count and no UNTIL; with only until given it holds UNTIL=until and
\* no COUNT.
C18_CountOrUntil ==
  bpc = "done" =>
    /\ ~({"COUNT", "UNTIL"} \subseteq BuiltKeys)
    /\ (GivenInt(build_args.count) /\ GivenText(build_args.until)) =>
         /\ "COUNT" \in BuiltKeys
         /\ BuiltValue("COUNT") = <<Numeral(build_args.count[1])>>
         /\ "UNTIL" \notin BuiltKeys
    /\ (~GivenInt(build_args.count) /\ GivenText(build_args.until)) =>
         /\ "UNTIL" \in BuiltKeys
         /\ BuiltValue("UNTIL") = <<build_args.until[1]>>
         /\ "COUNT" \notin BuiltKeys

\* A call with count 3 and until 20241231 has returned a string with COUNT.
C18_Witness ==
  /\ bpc = "done"
  /\ build_args.count = <<3>>
  /\ build_args.until = <<"20241231">>
  /\ "COUNT" \in BuiltKeys


(***************************************************************************)
(* Claims about generate_ics.                                              *)
(***************************************************************************)
\* The events of the call, by their place in the list.
IcsPlaces == 1..Len(ics_events)

\* The series some event of the call belongs to.
IcsSeries == {ics_events[k].recurrence_id : k \in IcsPlaces} \ {0}

\* The instances of series rid that carry a non-empty rrule.
RuledPlaces(rid) ==
  {k \in IcsPlaces : /\ ics_events[k].recurrence_id = rid
                     /\ ~ics_events[k].rrule.null
                     /\ ics_events[k].rrule.text # <<>>}

\* The events written one by one: outside every series, or in a series
\* none of whose instances carries a rule.
AlonePlaces ==
  {k \in IcsPlaces : \/ ics_events[k].recurrence_id = 0
                     \/ RuledPlaces(ics_events[k].recurrence_id) = {}}

\* The VEVENT blocks of the text with the given UID.
Blocks(kind, id) ==
  {b \in 1..Len(ics_text) : ics_text[b].uid = [kind |-> kind, id |-> id]}

\* The first instance of series rid that carries a rrule.
MasterOf(rid) ==
  ics_events[CHOOSE k \in RuledPlaces(rid) : \A j \in RuledPlaces(rid) : k <= j]

\* The SUMMARY and DESCRIPTION lines of block b are those of event ev.
CarriesTexts(b, ev) ==
  /\ ics_text[b].summary = escape_ics_text(ev.title)
  /\ ics_text[b].description =
       (IF ev.description = <<>> THEN <<>>
        ELSE <<escape_ics_text(ev.description)>>)

\* C13: generate_ics emits exactly one VEVENT, with UID
\* recurring-{recurrence_id}@calendar-app and the master's title and
\* description, for each series of which an instance carries a non-empty
\* rrule (however many do); one VEVENT with UID event-{id}@calendar-app for
\* each event without recurrence_id and for each instance of a series in
\* which no instance carries a rule; and no other VEVENT.
C13_OneVEventPerSeries ==
  xpc = "generated" =>
    /\ \A rid \in IcsSeries :
         IF RuledPlaces(rid) # {}
         THEN /\ Cardinality(Blocks("recurring", rid)) = 1
              /\ \A b \in Blocks("recurring", rid) :
                   CarriesTexts(b, MasterOf(rid))
         ELSE Blocks("recurring", rid) = {}
    /\ \A k \in IcsPlaces :
         IF k \in AlonePlaces
         THEN /\ Cardinality(Blocks("event", ics_events[k].id)) = 1
              /\ \A b \in Blocks("event", ics_events[k].id) :
                   CarriesTexts(b, ics_events[k])
         ELSE Blocks("event", ics_events[k].id) = {}
    /\ Len(ics_text)
         = Cardinality({rid \in IcsSeries : RuledPlaces(rid) # {}})
             + Cardinality(AlonePlaces)

\* C13 witness: a text written for a series two of whose instances carry a
\* rule, with different titles.
C13_Witness ==
  /\ xpc = "generated"
  /\ \E rid \in IcsSeries :
       /\ Cardinality(RuledPlaces(rid)) = 2
       /\ \E j, k \in RuledPlaces(rid) :
            ics_events[j].title # ics_events[k].title
  /\ Len(ics_text) = 1

\* The place of the segments with key in rule.
SegPlaces(rule, key) ==
  {k \in 1..Len(rule) : rule[k].eq /\ rule[k].key = key}

\* The segments of rule that are neither COUNT nor UNTIL, in their order.
OtherFields(rule) ==
  SelectSeq(rule, LAMBDA seg : ~(seg.eq /\ seg.key \in {"COUNT", "UNTIL"}))

\* C14: when end_date is given, the RRULE line of every series holds
\* exactly one UNTIL, whose value is end_date plus one day, and no COUNT,
\* whatever the stored rule held (UNTIL, COUNT, both, none) and wherever;
\* the other fields are unchanged and every ';'-separated part is a
\* KEY=VALUE.
C14_EndDateReplacesLimit ==
  (xpc = "generated" /\ end_date # <<>>) =>
    \A rid \in IcsSeries : \A b \in Blocks("recurring", rid) :
      LET rule == ics_text[b].rrule[1]
      IN /\ Cardinality(SegPlaces(rule, "UNTIL")) = 1
         /\ \A k \in SegPlaces(rule, "UNTIL") :
              rule[k].value = <<until_str(end_date[1])>>
         /\ SegPlaces(rule, "COUNT") = {}
         /\ \A k \in 1..Len(rule) : rule[k].eq /\ rule[k].key # ""
         /\ OtherFields(rule) = OtherFields(MasterOf(rid).rrule.text)

\* The seconds between two ICS date-times.
StampSeconds(st) == ToSeconds(Strptime(st.date \o st.time))

\* C15: if start_date is given and later than the master's start, DTSTART
\* is start_date at the master's time of day and DTEND - DTSTART is the
\* master's end - start; otherwise DTSTART and DTEND are the master's stored
\* start and end; and the call leaves the event records as they were.
C15_StartDateShift ==
  /\ [](xpc = "generated" =>
          \A rid \in IcsSeries : \A b \in Blocks("recurring", rid) :
            LET m == MasterOf(rid)
                later ==
                  /\ start_date # <<>>
                  /\ ToSeconds(Strptime(start_date[1] \o <<0, 0, 0>>))
                       > ToSeconds(Strptime(m.start_datetime))
            IN IF later
               THEN /\ ics_text[b].dtstart.date = start_date[1]
                    /\ ics_text[b].dtstart.time
                         = SubSeq(m.start_datetime, 4, 6)
                    /\ StampSeconds(ics_text[b].dtend)
                         - StampSeconds(ics_text[b].dtstart)
                         = ToSeconds(Strptime(m.end_datetime))
                             - ToSeconds(Strptime(m.start_datetime))
               ELSE /\ ics_text[b].dtstart.date \o ics_text[b].dtstart.time
                         = m.start_datetime
                    /\ ics_text[b].dtend.date \o ics_text[b].dtend.time
                         = m.end_datetime)
  /\ [][ics_events' = ics_events]_vars

\* C15 witness: a text whose DTSTART was moved to a later start_date, the
\* event then ending on the day after.
C15_Witness ==
  /\ xpc = "generated"
  /\ start_date = <<<<2024, 3, 5>>>>
  /\ \E b \in 1..Len(ics_text) :
       /\ ics_text[b].uid.kind = "recurring"
       /\ ics_text[b].dtstart = [date |-> <<2024, 3, 5>>, time |-> <<23, 30, 0>>]
       /\ ics_text[b].dtend = [date |-> <<2024, 3, 6>>, time |-> <<0, 30, 0>>]

(***************************************************************************)
(* Claims about generate_ics followed by parse_ics_file.                   *)
(***************************************************************************)
\* The k-th event returned is the k-th event written, in title,
\* description, start_datetime and end_datetime.
SameEvent(k) ==
  /\ events_back[k].title = ics_events[k].title
  /\ events_back[k].description = ics_events[k].description
  /\ events_back[k].start_datetime = ics_events[k].start_datetime
  /\ events_back[k].end_datetime = ics_events[k].end_datetime

\* Unescaping undoes escape_ics_text on every text.
EscapeUndone == \A t \in TextsUpTo(MaxText) : Unescape(escape_ics_text(t)) = t

\* C12: writing a list of events outside every series with generate_ics and
\* reading the text with parse_ics_file gives, in the same order, events
\* with the same title, description, start_datetime and end_datetime, for
\* every title and description of ordinary characters, backslashes, commas,
\* semicolons and newlines, the empty ones included; unescaping undoes
\* escape_ics_text.
C12_RoundTrip ==
  /\ EscapeUndone
  /\ xpc = "parsed" =>
       /\ Len(events_back) = Len(ics_events)
       /\ \A k \in 1..Len(ics_events) : SameEvent(k)

\* The round trip of C12 for the events whose title is not empty.
RoundTripTitled ==
  /\ EscapeUndone
  /\ xpc = "parsed" =>
       /\ Len(events_back) = Len(ics_events)
       /\ \A k \in 1..Len(ics_events) :
            ics_events[k].title # <<>> => SameEvent(k)

(***************************************************************************)
(* Claims about parse_ics_file.                                            *)
(***************************************************************************)
\* The VEVENTs of the file that have a DTSTART, in file order.
Started == SelectSeq(cal, LAMBDA c : c.dtstart # <<>>)

\* The events returned that stand at the place of a VEVENT with a DTSTART.
Returned == {k \in 1..Len(events_back) : k <= Len(Started)}

\* The time h:00:00 on the day of the date value v, as a string.
OnDayAt(v, h) == <<v.dt.year, v.dt.month, v.dt.day, h, 0, 0>>

\* C19: every VEVENT whose DTSTART is a bare date becomes a timed window on
\* that date: start_datetime is 09:00:00 and end_datetime 17:00:00 of the
\* DTSTART date, whether DTEND is a bare date (the same or a later one) or
\* absent.
C19_AllDayWindow ==
  xpc = "parsed" =>
    \A k \in Returned :
      (/\ Started[k].dtstart[1].kind = "date"
       /\ \/ Started[k].dtend = <<>>
          \/ Started[k].dtend[1].kind = "date")
        => /\ events_back[k].start_datetime = OnDayAt(Started[k].dtstart[1], 9)
           /\ events_back[k].end_datetime = OnDayAt(Started[k].dtstart[1], 17)

\* The seconds of a 'Y-M-D h:m:s' string.
StrSeconds(str) == ToSeconds(Strptime(str))

Degenerate(i) == sorted_events[i].end <= sorted_events[i].start

\* The events at places i and j of the returned list overlap.
Overlapping(i, j) == events_overlap(sorted_events[i], sorted_events[j])

\* The group the event at place i was put in.
GroupOf(i) ==
  CHOOSE g \in 1..Len(groups) :
    \E k \in 1..Len(groups[g]) : groups[g][k].id = sorted_events[i].id

\* The event at place i is laid out by itself.
LaidAlone(i) ==
  /\ Len(groups[GroupOf(i)]) = 1
  /\ sorted_events[i].overlap_column = 0
  /\ sorted_events[i].overlap_total = 1

GroupsHolding(i) ==
  {g \in 1..Len(groups) :
     \E k \in 1..Len(groups[g]) : groups[g][k].id = sorted_events[i].id}

\* The number of events in the groups g..Len(groups).
RECURSIVE GroupedFrom(_)
GroupedFrom(g) ==
  IF g > Len(groups) THEN 0 ELSE Len(groups[g]) + GroupedFrom(g + 1)

\* C23: the groups built by calculate_overlap_columns are the maximal
\* connected components of the overlap relation: two events are in one
\* group if and only if a chain of pairwise-overlapping events links them,
\* and every input event belongs to exactly one group.
C23_GroupsAreComponents ==
  lpc = "done" =>
    /\ Len(sorted_events) = Len(events)
    /\ GroupedFrom(1) = Len(events)
    /\ \A i \in Laid : Cardinality(GroupsHolding(i)) = 1
    /\ \A i, j \in Laid :
         (GroupsHolding(i) = GroupsHolding(j)) <=> (j \in Component(i))

\* C23 witness: a group of three events two of which do not overlap each
\* other and are linked by the third.
C23_Witness ==
  /\ lpc = "done"
  /\ Len(groups) = 1
  /\ \E i, j, k \in Laid :
       /\ ~Overlapping(i, j)
       /\ Overlapping(i, k)
       /\ Overlapping(k, j)

(***************************************************************************)
(* Claims about the import_ics route.                                      *)
(***************************************************************************)
\* The VEVENTs of the uploaded calendar that have a DTSTART.
Importable == SelectSeq(upload[1].cal, LAMBDA c : c.dtstart # <<>>)

\* The upload is a file named *.ics that holds a calendar.
GoodUpload ==
  /\ upload[1].present
  /\ EndsWithIcs(upload[1].filename)
  /\ upload[1].valid

\* C30: when the upload is a file named *.ics whose content is a valid
\* calendar, import_ics stores exactly one event per decoded event (each
\* VEVENT with a DTSTART) behind the rows the table held, each with the
\* selected tag and the current user's id; the events table is unchanged
\* only when the upload is missing, unnamed, not *.ics or no calendar.
C30_ImportStoresEvents ==
  [][xpc' = "imported" =>
       IF GoodUpload
       THEN /\ Len(events_table') = Len(events_table) + Len(Importable)
            /\ SubSeq(events_table', 1, Len(events_table)) = events_table
            /\ \A k \in (Len(events_table) + 1)..Len(events_table') :
                 /\ events_table'[k].tag = upload[1].tag
                 /\ events_table'[k].user_id = upload[1].user
       ELSE events_table' = events_table]_vars

(***************************************************************************)
(* Further claims about generate_ics: the series the exported VEVENT       *)
(* describes against the series stored.                                    *)
(***************************************************************************)
\* The instances expand_rrule lists for the VEVENT of block b, at most max.
ExportedInstances(b, max) ==
  expand_rrule(ics_text[b].dtstart.date \o ics_text[b].dtstart.time,
               ics_text[b].dtend.date \o ics_text[b].dtend.time,
               ics_text[b].rrule[1], max)

\* C28: with end_date given, the UNTIL written to the RRULE of a series is
\* never later than the UNTIL of the stored rule, and a stored rule with
\* COUNT=n is never exported as a rule that yields more than n occurrences.
C28_EndDateNeverLengthens ==
  (xpc = "generated" /\ end_date # <<>>) =>
    \A rid \in IcsSeries : \A b \in Blocks("recurring", rid) :
      LET stored == MasterOf(rid).rrule.text
          rule == ics_text[b].rrule[1]
      IN /\ \A j \in SegPlaces(stored, "UNTIL"), k \in SegPlaces(rule, "UNTIL") :
              ToSeconds(UntilText[rule[k].value[1]])
                <= ToSeconds(UntilText[stored[j].value[1]])
         /\ \A j \in SegPlaces(stored, "COUNT") :
              LET n == IntText[stored[j].value[1]]
                  out == ExportedInstances(b, n + 1)
              IN ~out.raised /\ Len(out.instances) <= n

\* Lines 59-63: start_date is given and later than the start of master m.
ShiftedFrom(m) ==
  /\ start_date # <<>>
  /\ ToSeconds(Strptime(start_date[1] \o <<0, 0, 0>>))
       > ToSeconds(Strptime(m.start_datetime))

\* The instances expand_rrule lists for the stored series of master m, at
\* most max.
StoredInstances(m, max) ==
  expand_rrule(m.start_datetime, m.end_datetime, m.rrule.text, max)

\* The whole days from the start of master m to the DTSTART of block b.
DaysShifted(m, b) ==
  (StampSeconds(ics_text[b].dtstart) - ToSeconds(Strptime(m.start_datetime)))
    \div 86400

\* The starts of the instances of a list.
StartsOf(insts) == {ToSeconds(Strptime(insts[k][1])) : k \in 1..Len(insts)}

\* C29: when generate_ics shifts DTSTART to start_date, the shifted DTSTART
\* is an occurrence of the stored rule expanded from the master's start,
\* and with a COUNT rule and no end_date the exported rule yields no
\* occurrence later than the last instance of the stored series.
C29_ShiftStaysInSeries ==
  xpc = "generated" =>
    \A rid \in IcsSeries : \A b \in Blocks("recurring", rid) :
      LET m == MasterOf(rid)
          stored == StoredInstances(m, DaysShifted(m, b) + 2)
      IN ShiftedFrom(m) =>
           /\ ~stored.raised
           /\ StampSeconds(ics_text[b].dtstart) \in StartsOf(stored.instances)
           /\ \A j \in SegPlaces(m.rrule.text, "COUNT") :
                end_date = <<>> =>
                  LET n == IntText[m.rrule.text[j].value[1]]
                      kept == StoredInstances(m, n)
                      out == ExportedInstances(b, n)
                  IN /\ ~kept.raised
                     /\ ~out.raised
                     /\ \A t \in StartsOf(out.instances) :
                          \E u \in StartsOf(kept.instances) : t <= u
====
